---- MODULE Spec2Model ----
(***************************************************************************)
(* A model of the storage engine of rust/mini-lsm: LsmStorage (get, put,   *)
(* force_freeze_memtable), MemTable (get, put, flush) and Wal (create,     *)
(* put).  Threads call put and get on one engine instance; every step that *)
(* another thread can observe is one action.                               *)
(***************************************************************************)
EXTENDS Integers, Sequences, FiniteSets, TLC

(***************************************************************************)
(* Bounds of the model.                                                    *)
(***************************************************************************)
\* number of client threads
NumThreads == 2
\* number of put calls made in one behaviour (get calls are not bounded)
MaxPuts == 2
\* keys are the one-byte strings <<1>> .. <<NumKeys>>
NumKeys == 2
\* the freeze threshold, lsm_storage.rs:90 and :100 (1 << 20 in the code),
\* scaled down so that a few small puts cross it
MemtableThreshold == 2
\* the capacity of std's BufWriter (8192 in std), scaled down likewise
BufCapacity == 10

Threads == 1..NumThreads
Keys == {<<b>> : b \in 1..NumKeys}
\* the empty value is the tombstone
Values == {<<>>, <<7>>, <<8, 9>>}

VARIABLES
    heap,           \* the MemTable objects ever allocated; an Arc<MemTable> is an index
    memtable,       \* LsmStorageState.memtable
    imm_memtables,  \* LsmStorageState.imm_memtables
    l0_sstables,    \* LsmStorageState.l0_sstables
    levels,         \* LsmStorageState.levels
    sstables,       \* LsmStorageState.sstables, a set of [id, entries]
    next_sst_id,    \* LsmStorage.next_sst_id
    readers,        \* the threads that hold LsmStorage.state in shared mode
    th,             \* each thread's position, arguments, locals and return value
    hist,           \* history: the put calls made so far, in map.insert order
    flush_worker,   \* the flush task: "idle" or "panicked"
    blk,            \* a BlockBuilder and the Block built, encoded and decoded
    tbl,            \* an SsTableBuilder and the SsTable and file it builds
    ftr,            \* a Footer or a buffer, and what encode and decode made of it
    blm,            \* a Bloom built from keys, encoded, decoded and probed
    wlog,           \* a Wal at the level of bytes, and the puts made on it
    rds             \* mini-redis: the Db, the clock, the purge task, the replies

vars == <<heap, memtable, imm_memtables, l0_sstables, levels, sstables,
          next_sst_id, readers, th, hist, flush_worker, blk, tbl,
          ftr, blm, wlog, rds>>

storage == <<heap, memtable, imm_memtables, l0_sstables, levels, sstables,
             next_sst_id>>

\* the builders, which the storage engine never touches
builders == <<blk, tbl>>

\* the footer, the bloom filter, the WAL bytes and mini-redis, each
\* exercised on its own
units == <<ftr, blm, wlog, rds>>

\* the engine, which the builders never touch
engine == <<heap, memtable, imm_memtables, l0_sstables, levels, sstables,
            next_sst_id, readers, th, hist, flush_worker>>

(***************************************************************************)
(* Values returned to the caller: Result<()> and Result<Option<Bytes>>.    *)
(***************************************************************************)
Unit == [tag |-> "Unit", val |-> <<>>]
Ok == [tag |-> "Ok", val |-> <<>>]
\* an Io error out of Wal::put
WalErr == [tag |-> "WalErr", val |-> <<>>]
\* an Io error out of Wal::create
CreateErr == [tag |-> "CreateErr", val |-> <<>>]
None == [tag |-> "None", val |-> <<>>]
Some(v) == [tag |-> "Some", val |-> v]

(***************************************************************************)
(* MemTable                                                                *)
(***************************************************************************)
\* Wal::create: a BufWriter over a fresh file; buf is the writer's
\* user-space buffer, file is what has been handed to the operating system
WalCreate == [buf |-> <<>>, file |-> <<>>]

\* MemTable::create_with_wal
MemTableCreateWithWal(id) ==
    [id |-> id, map |-> {}, approximate_size |-> 0, wal |-> WalCreate]

\* an insert that keeps the entry a key already has
MapInsertKeepOld(map, k, v) ==
    IF \E e \in map : e.key = k THEN map
    ELSE map \cup {[key |-> k, value |-> v]}

\* SkipMap::insert: the entry of the key is replaced
MapInsert(map, k, v) ==
    {e \in map : e.key # k} \cup {[key |-> k, value |-> v]}

\* MemTable::get
MemTableGet(m, k) ==
    IF \E e \in m.map : e.key = k
    THEN Some((CHOOSE e \in m.map : e.key = k).value)
    ELSE None

\* key.len() + value.len()
EstimatedSize(k, v) == Len(k) + Len(v)

(***************************************************************************)
(* Wal                                                                     *)
(***************************************************************************)
\* the length of one record: key_len, key, val_len, value, checksum
RecordLen(r) == 2 + Len(r.key) + 2 + Len(r.value) + 4

RECURSIVE BytesOf(_)
BytesOf(recs) ==
    IF recs = <<>> THEN 0 ELSE RecordLen(Head(recs)) + BytesOf(Tail(recs))

\* the ways the I/O of one write_all can go
IoOutcomes == {"ok", "flush_fails", "write_fails"}

\* BufWriter::write_all of one record r: the record is copied into the
\* buffer when it is shorter than the spare capacity; otherwise the buffer
\* is flushed first when the record is longer than the spare capacity, and
\* the record is written through when it is at least as long as the whole
\* buffer.  Only the flush and the write-through perform I/O, and only they
\* can fail.
WalWriteAll(w, r, io) ==
    LET spare == BufCapacity - BytesOf(w.buf)
        len == RecordLen(r)
        flushed == [buf |-> <<>>, file |-> w.file \o w.buf]
    IN  IF len < spare
        THEN [ok |-> TRUE, wal |-> [w EXCEPT !.buf = Append(w.buf, r)]]
        ELSE IF len > spare /\ w.buf # <<>> /\ io = "flush_fails"
        THEN [ok |-> FALSE, wal |-> w]
        ELSE LET w1 == IF len > spare THEN flushed ELSE w
             IN  IF len >= BufCapacity
                 THEN IF io = "write_fails"
                      THEN [ok |-> FALSE, wal |-> w1]
                      ELSE [ok |-> TRUE,
                            wal |-> [w1 EXCEPT !.file = Append(w1.file, r)]]
                 ELSE [ok |-> TRUE,
                       wal |-> [w1 EXCEPT !.buf = Append(w1.buf, r)]]

\* Wal::put: under the writer's mutex, one record is built and written
WalPut(w, k, v, io) == WalWriteAll(w, [key |-> k, value |-> v], io)

(***************************************************************************)
(* LsmStorage::open                                                        *)
(***************************************************************************)
ThreadInit ==
    [pc |-> "idle", op |-> "none", key |-> <<>>, value |-> <<>>, mt |-> 0,
     ret |-> Unit, put_id |-> 0,
     old_val |-> None, old_size |-> 0, old_imm |-> 0, pre |-> {}]

\* LsmStorageState::create with no SST at all
LsmStorageStateCreateDangling ==
    [l0_sstables |-> <<1>>, levels |-> <<>>, sstables |-> {}]

\* LsmStorageState::create: no L0 id, no level, no SST
LsmStorageStateCreate ==
    [l0_sstables |-> <<>>, levels |-> <<>>, sstables |-> {}]

\* no BlockBuilder and no SsTableBuilder has been made
NoBuilder == [pc |-> "none"]

\* the engine after LsmStorage::open
StorageInit ==
    /\ heap = <<MemTableCreateWithWal(0)>>
    /\ memtable = 1
    /\ imm_memtables = <<>>
    /\ l0_sstables = LsmStorageStateCreate.l0_sstables
    /\ levels = LsmStorageStateCreate.levels
    /\ sstables = LsmStorageStateCreate.sstables
    /\ next_sst_id = 1
    /\ readers = {}
    /\ th = [t \in Threads |-> ThreadInit]
    /\ hist = <<>>
    /\ flush_worker = "idle"

\* nothing but the storage engine is in use
UnitsIdle ==
    /\ ftr = NoBuilder
    /\ blm = NoBuilder
    /\ wlog = NoBuilder
    /\ rds = NoBuilder

Init ==
    /\ StorageInit
    /\ blk = NoBuilder
    /\ tbl = NoBuilder
    /\ UnitsIdle

\* a thread after its call has returned r: the locals are gone
Done(s, r) ==
    [ThreadInit EXCEPT !.pc = "done", !.op = s.op, !.key = s.key,
                       !.mt = s.mt, !.ret = r]

\* the put calls that have returned
Returned == {i \in 1..Len(hist) : hist[i].status # "run"}

(***************************************************************************)
(* LsmStorage::put                                                         *)
(***************************************************************************)
\* a thread calls put(k, v): self.state.read(), then MemTable::put's
\* map.insert on guard.memtable
PutInsert(t, k, v) ==
    /\ th[t].pc \in {"idle", "done"}
    /\ Len(hist) < MaxPuts
    /\ hist' = Append(hist, [key |-> k, value |-> v, status |-> "run",
                             pre |-> Returned, mt |-> memtable,
                             logged |-> FALSE])
    /\ LET m == heap[memtable]
       IN  /\ th' = [th EXCEPT ![t] = [ThreadInit EXCEPT
                        !.pc = "put_add", !.op = "put", !.key = k,
                        !.value = v, !.put_id = Len(hist) + 1,
                        !.mt = memtable,
                        !.old_val = MemTableGet(m, k),
                        !.old_size = m.approximate_size,
                        !.old_imm = Len(imm_memtables)]]
           /\ heap' = [heap EXCEPT ![memtable].map = MapInsert(m.map, k, v)]
    /\ readers' = readers \cup {t}
    /\ UNCHANGED <<memtable, imm_memtables, l0_sstables, levels, sstables,
                   next_sst_id, flush_worker>>
    /\ UNCHANGED <<builders, units>>

\* MemTable::put's approximate_size.fetch_add
PutAddSize(t) ==
    /\ th[t].pc = "put_add"
    /\ heap' = [heap EXCEPT ![th[t].mt].approximate_size =
                   @ + EstimatedSize(th[t].key, th[t].value)]
    /\ th' = [th EXCEPT ![t].pc = "put_wal"]
    /\ UNCHANGED <<memtable, imm_memtables, l0_sstables, levels, sstables,
                   next_sst_id, readers, hist, flush_worker>>
    /\ UNCHANGED <<builders, units>>

\* MemTable::put's wal.put(key, value)?; on an error put returns it and the
\* guard is dropped
PutWal(t) ==
    /\ th[t].pc = "put_wal"
    /\ \E io \in IoOutcomes :
          LET m == th[t].mt
              r == WalPut(heap[m].wal, th[t].key, th[t].value, io)
          IN  /\ heap' = [heap EXCEPT ![m].wal = r.wal]
              /\ IF r.ok
                 THEN /\ th' = [th EXCEPT ![t].pc = "put_size"]
                      /\ hist' = [hist EXCEPT ![th[t].put_id].logged = TRUE]
                      /\ UNCHANGED readers
                 ELSE /\ th' = [th EXCEPT ![t] = Done(th[t], WalErr)]
                      /\ readers' = readers \ {t}
                      /\ hist' = [hist EXCEPT ![th[t].put_id].status = "err"]
    /\ UNCHANGED <<memtable, imm_memtables, l0_sstables, levels, sstables,
                   next_sst_id, flush_worker>>
    /\ UNCHANGED <<builders, units>>

\* a put that calls force_freeze_memtable with its read guard still alive
PutSizeKeepsGuard(t) ==
    /\ th[t].pc = "put_size"
    /\ LET size == heap[th[t].mt].approximate_size
       IN  IF size > MemtableThreshold
           THEN /\ th' = [th EXCEPT ![t].pc = "freeze"]
                /\ UNCHANGED <<hist, readers>>
           ELSE /\ th' = [th EXCEPT ![t] = Done(th[t], Ok)]
                /\ hist' = [hist EXCEPT ![th[t].put_id].status = "ok"]
                /\ readers' = readers \ {t}
    /\ UNCHANGED <<storage, flush_worker>>
    /\ UNCHANGED <<builders, units>>

\* size = guard.memtable.approximate_size(); the guard is dropped; then
\* the test size > 1 << 20
PutSize(t) ==
    /\ th[t].pc = "put_size"
    /\ LET size == heap[th[t].mt].approximate_size
       IN  IF size > MemtableThreshold
           THEN /\ th' = [th EXCEPT ![t].pc = "freeze"]
                /\ UNCHANGED hist
           ELSE /\ th' = [th EXCEPT ![t] = Done(th[t], Ok)]
                /\ hist' = [hist EXCEPT ![th[t].put_id].status = "ok"]
    /\ readers' = readers \ {t}
    /\ UNCHANGED <<storage, flush_worker>>
    /\ UNCHANGED <<builders, units>>

(***************************************************************************)
(* LsmStorage::force_freeze_memtable                                       *)
(***************************************************************************)
\* the id of the old memtable used again
NewIdSame(old) == old.id

\* old_memtable.id() + 1
NewId(old) == old.id + 1

\* the old memtable pushed at the back
ImmInsertAtEnd(imm, old) == imm \o <<old>>

\* imm_memtables.insert(0, old_memtable)
ImmInsert(imm, old) == <<old>> \o imm

\* force_freeze_memtable without the second look at the size
ForceFreezeMemtableUnchecked(t) ==
    /\ th[t].pc = "freeze"
    /\ readers = {}
    /\ \E create_ok \in BOOLEAN :
          IF create_ok
          THEN /\ heap' = Append(heap,
                             MemTableCreateWithWal(NewId(heap[memtable])))
               /\ imm_memtables' = ImmInsert(imm_memtables, memtable)
               /\ memtable' = Len(heap) + 1
               /\ th' = [th EXCEPT ![t] = Done(th[t], Ok)]
               /\ hist' = [hist EXCEPT ![th[t].put_id].status = "ok"]
               /\ UNCHANGED <<l0_sstables, levels, sstables, next_sst_id>>
          ELSE /\ th' = [th EXCEPT ![t] = Done(th[t], CreateErr)]
               /\ hist' = [hist EXCEPT ![th[t].put_id].status = "err"]
               /\ UNCHANGED storage
    /\ UNCHANGED <<readers, flush_worker>>
    /\ UNCHANGED <<builders, units>>

\* force_freeze_memtable run without the exclusive lock on the state
ForceFreezeMemtableUnlocked(t) ==
    /\ th[t].pc = "freeze"
    /\ IF heap[memtable].approximate_size <= MemtableThreshold
       THEN /\ th' = [th EXCEPT ![t] = Done(th[t], Ok)]
            /\ hist' = [hist EXCEPT ![th[t].put_id].status = "ok"]
            /\ UNCHANGED storage
       ELSE \E create_ok \in BOOLEAN :
               IF create_ok
               THEN /\ heap' = Append(heap,
                                  MemTableCreateWithWal(NewId(heap[memtable])))
                    /\ imm_memtables' = ImmInsert(imm_memtables, memtable)
                    /\ memtable' = Len(heap) + 1
                    /\ th' = [th EXCEPT ![t] = Done(th[t], Ok)]
                    /\ hist' = [hist EXCEPT ![th[t].put_id].status = "ok"]
                    /\ UNCHANGED <<l0_sstables, levels, sstables, next_sst_id>>
               ELSE /\ th' = [th EXCEPT ![t] = Done(th[t], CreateErr)]
                    /\ hist' = [hist EXCEPT ![th[t].put_id].status = "err"]
                    /\ UNCHANGED storage
    /\ UNCHANGED <<readers, flush_worker>>
    /\ UNCHANGED <<builders, units>>

\* force_freeze_memtable pushing the old memtable before the new one is
\* created
ForceFreezeMemtablePushFirst(t) ==
    /\ th[t].pc = "freeze"
    /\ readers = {}
    /\ IF heap[memtable].approximate_size <= MemtableThreshold
       THEN /\ th' = [th EXCEPT ![t] = Done(th[t], Ok)]
            /\ hist' = [hist EXCEPT ![th[t].put_id].status = "ok"]
            /\ UNCHANGED storage
       ELSE \E create_ok \in BOOLEAN :
               IF create_ok
               THEN /\ heap' = Append(heap,
                                  MemTableCreateWithWal(NewId(heap[memtable])))
                    /\ imm_memtables' = ImmInsert(imm_memtables, memtable)
                    /\ memtable' = Len(heap) + 1
                    /\ th' = [th EXCEPT ![t] = Done(th[t], Ok)]
                    /\ hist' = [hist EXCEPT ![th[t].put_id].status = "ok"]
                    /\ UNCHANGED <<l0_sstables, levels, sstables, next_sst_id>>
               ELSE /\ th' = [th EXCEPT ![t] = Done(th[t], CreateErr)]
                    /\ hist' = [hist EXCEPT ![th[t].put_id].status = "err"]
                    /\ imm_memtables' = ImmInsert(imm_memtables, memtable)
                    /\ UNCHANGED <<heap, memtable, l0_sstables, levels,
                                   sstables, next_sst_id>>
    /\ UNCHANGED <<readers, flush_worker>>
    /\ UNCHANGED <<builders, units>>

\* the whole of force_freeze_memtable, which runs under self.state.write():
\* the size is checked again, the new memtable and its WAL are created
\* (File::create may fail) and the old memtable is pushed to imm_memtables
ForceFreezeMemtable(t) ==
    /\ th[t].pc = "freeze"
    /\ readers = {}
    /\ IF heap[memtable].approximate_size <= MemtableThreshold
       THEN /\ th' = [th EXCEPT ![t] = Done(th[t], Ok)]
            /\ hist' = [hist EXCEPT ![th[t].put_id].status = "ok"]
            /\ UNCHANGED storage
       ELSE \E create_ok \in BOOLEAN :
               IF create_ok
               THEN /\ heap' = Append(heap,
                                  MemTableCreateWithWal(NewId(heap[memtable])))
                    /\ imm_memtables' = ImmInsert(imm_memtables, memtable)
                    /\ memtable' = Len(heap) + 1
                    /\ th' = [th EXCEPT ![t] = Done(th[t], Ok)]
                    /\ hist' = [hist EXCEPT ![th[t].put_id].status = "ok"]
                    /\ UNCHANGED <<l0_sstables, levels, sstables, next_sst_id>>
               ELSE /\ th' = [th EXCEPT ![t] = Done(th[t], CreateErr)]
                    /\ hist' = [hist EXCEPT ![th[t].put_id].status = "err"]
                    /\ UNCHANGED storage
    /\ UNCHANGED <<readers, flush_worker>>
    /\ UNCHANGED <<builders, units>>

(***************************************************************************)
(* LsmStorage::get                                                         *)
(***************************************************************************)
\* a thread calls get(k):
\* let snapshot = { let guard = self.state.read(); guard.memtable.clone() }
GetSnapshot(t, k) ==
    /\ th[t].pc \in {"idle", "done"}
    /\ th' = [th EXCEPT ![t] = [ThreadInit EXCEPT
                 !.pc = "get_probe", !.op = "get", !.key = k,
                 !.mt = memtable, !.pre = Returned]]
    /\ UNCHANGED <<storage, readers, hist, flush_worker>>
    /\ UNCHANGED <<builders, units>>

\* the value found returned as it is, a tombstone too
GetResultNoTombstone(found) ==
    IF found.tag = "Some" THEN found ELSE None

\* what get returns for the value found in the snapshot
GetResult(found) ==
    IF found.tag = "Some"
    THEN IF found.val = <<>> THEN None ELSE found
    ELSE None

\* snapshot.get(key) and the return
GetProbe(t) ==
    /\ th[t].pc = "get_probe"
    /\ th' = [th EXCEPT ![t] =
                 Done(th[t], GetResult(MemTableGet(heap[th[t].mt], th[t].key)))]
    /\ UNCHANGED <<storage, readers, hist, flush_worker>>
    /\ UNCHANGED <<builders, units>>

(***************************************************************************)
(* The flush task                                                          *)
(***************************************************************************)
\* MemTable::flush is unimplemented!(): the task that calls it on the
\* oldest immutable memtable panics and changes nothing
MemTableFlush ==
    /\ flush_worker = "idle"
    /\ imm_memtables # <<>>
    /\ flush_worker' = "panicked"
    /\ UNCHANGED <<storage, readers, th, hist>>
    /\ UNCHANGED <<builders, units>>

(***************************************************************************)
(* Specifications                                                          *)
(***************************************************************************)
Step(t) ==
    \/ \E k \in Keys, v \in Values : PutInsert(t, k, v)
    \/ PutAddSize(t)
    \/ PutWal(t)
    \/ PutSize(t)
    \/ ForceFreezeMemtable(t)
    \/ \E k \in Keys : GetSnapshot(t, k)
    \/ GetProbe(t)

Next == (\E t \in Threads : Step(t)) \/ MemTableFlush

\* threads calling put and get concurrently
Spec == Init /\ [][Next]_vars

\* one thread calling put and get
SeqNext == Step(1) \/ MemTableFlush

SeqSpec == Init /\ [][SeqNext]_vars

\* every thread that can take a step eventually takes one, and so does the
\* flush task
FairSpec ==
    /\ Init /\ [][Next]_vars
    /\ \A t \in Threads : WF_vars(Step(t))
    /\ WF_vars(MemTableFlush)

(***************************************************************************)
(* The tiers as the read path is specified to see them                     *)
(***************************************************************************)
\* the entries of the SST with the given id
SstEntries(id) ==
    IF \E s \in sstables : s.id = id
    THEN (CHOOSE s \in sstables : s.id = id).entries
    ELSE {}

RECURSIVE Flatten(_)
Flatten(ls) ==
    IF ls = <<>> THEN <<>> ELSE Head(ls)[2] \o Flatten(Tail(ls))

\* the maps of all tiers, newest first
TierMaps ==
    <<heap[memtable].map>>
    \o [i \in 1..Len(imm_memtables) |-> heap[imm_memtables[i]].map]
    \o [i \in 1..Len(l0_sstables) |-> SstEntries(l0_sstables[i])]
    \o [i \in 1..Len(Flatten(levels)) |-> SstEntries(Flatten(levels)[i])]

RECURSIVE FirstHit(_, _)
FirstHit(tiers, k) ==
    IF tiers = <<>> THEN None
    ELSE IF \E e \in Head(tiers) : e.key = k
         THEN Some((CHOOSE e \in Head(tiers) : e.key = k).value)
         ELSE FirstHit(Tail(tiers), k)

\* the put calls on key k
PutsOn(k) == {i \in 1..Len(hist) : hist[i].key = k}

\* the last put call on key k (0 when there is none)
LastPutOn(k) ==
    IF PutsOn(k) = {} THEN 0
    ELSE CHOOSE i \in PutsOn(k) : \A j \in PutsOn(k) : j <= i

\* thread t has returned from a get
GetDone(t) == th[t].pc = "done" /\ th[t].op = "get"

\* thread t has returned from a put
PutDone(t) == th[t].pc = "done" /\ th[t].op = "put"

\* the step in which thread t returns from a put
PutReturns(t) ==
    th[t].op = "put" /\ th[t].pc # "done" /\ th'[t].pc = "done"

\* the memtables in imm_memtables
InImm(a) == \E i \in 1..Len(imm_memtables) : imm_memtables[i] = a

(***************************************************************************)
(* C1..C10                                                                 *)
(***************************************************************************)
\* C1: get returns the result of the first tier that holds the key, the
\* tiers being the active memtable, the immutable memtables newest first,
\* the L0 SSTs newest first and the deeper levels; a tombstone yields None.
C1_GetProbesAllTiers ==
    GetDone(1) => th[1].ret = GetResult(FirstHit(TierMaps, th[1].key))

\* C2: with one thread, a get(k) after a sequence of puts returns Some(v)
\* for the non-empty value v of the last put(k, v), however many freezes
\* the puts have caused.
C2_ReadYourWrites ==
    LET p == LastPutOn(th[1].key)
    IN  (GetDone(1) /\ p # 0 /\ hist[p].status = "ok" /\ hist[p].value # <<>>)
            => th[1].ret = Some(hist[p].value)

\* what a get of k may return when the put P had returned before it began:
\* the value of P, or the value of a put on k that is not ordered before P
C3_Allowed(P, r) ==
    \/ r = GetResult(Some(hist[P].value))
    \/ \E q \in PutsOn(hist[P].key) :
          q # P /\ q \notin hist[P].pre /\ r = GetResult(Some(hist[q].value))

\* C3: a put(k, v) that has returned Ok before a get(k) begins is visible
\* to that get: the get returns v or the value of a put on k that is not
\* ordered before that put.
C3_PutVisibleAcrossThreads ==
    [][\A t \in Threads :
          (th[t].pc = "get_probe" /\ th'[t].pc = "done") =>
              \A P \in th[t].pre :
                  (hist[P].key = th[t].key /\ hist[P].status = "ok")
                      => C3_Allowed(P, th'[t].ret)]_vars

\* C4: with one thread, a get(k) after put(k, empty) has returned Ok as the
\* last put on k returns None, whatever the older tiers hold for k.
C4_TombstoneShadows ==
    LET p == LastPutOn(th[1].key)
    IN  (GetDone(1) /\ p # 0 /\ hist[p].status = "ok" /\ hist[p].value = <<>>)
            => th[1].ret = None

\* C4's case: the get has returned None, the last put on its key wrote a
\* tombstone, and an immutable memtable still holds a non-empty value
C4_Witness ==
    LET p == LastPutOn(th[1].key)
    IN  /\ GetDone(1) /\ p # 0 /\ hist[p].status = "ok" /\ hist[p].value = <<>>
        /\ th[1].ret = None
        /\ MemTableGet(heap[memtable], th[1].key) = Some(<<>>)
        /\ \E a \in 1..Len(heap) :
              /\ InImm(a)
              /\ \E e \in heap[a].map : e.key = th[1].key /\ e.value # <<>>

\* C5: when the WAL write of a put fails, the put returns the error and
\* the memtable is as it was before the put: the key has its old value (or
\* none) and approximate_size has not grown.
C5_FailedPutLeavesMemtable ==
    [][(PutReturns(1) /\ th'[1].ret = WalErr) =>
          /\ MemTableGet(heap'[th[1].mt], th[1].key) = th[1].old_val
          /\ heap'[th[1].mt].approximate_size = th[1].old_size]_vars

\* C6: with one thread, when a put has returned Ok its record is in the
\* file, not in the writer's user-space buffer; the record is the last one
\* written to that WAL, so the buffer is empty.
C6_RecordHandedToOs ==
    (PutDone(1) /\ th[1].ret = Ok) => heap[th[1].mt].wal.buf = <<>>

\* the old active memtable of thread t's put has been rotated
C7_Rotated(t) ==
    /\ Len(imm_memtables') = th[t].old_imm + 1
    /\ imm_memtables'[1] = th[t].mt
    /\ memtable' # th[t].mt
    /\ heap'[memtable'].map = {}
    /\ heap'[memtable'].approximate_size = 0

\* C7, as stated: with one thread, a put that has written the memtable and
\* leaves its approximate size above the threshold has rotated it when it
\* returns.
C7_FreezeTrigger ==
    [][(/\ PutReturns(1)
        /\ th'[1].ret # WalErr
        /\ heap'[th[1].mt].approximate_size > MemtableThreshold)
          => C7_Rotated(1)]_vars

\* C7, amended: with one thread, a put that returns Ok and leaves the
\* memtable it wrote above the threshold has rotated it: the old memtable
\* is imm_memtables[0], imm_memtables has grown by one, and the new active
\* memtable is empty.
C7_FreezeTriggerOk ==
    [][(/\ PutReturns(1)
        /\ th'[1].ret = Ok
        /\ heap'[th[1].mt].approximate_size > MemtableThreshold)
          => C7_Rotated(1)]_vars

\* C7's case: a put has returned Ok, its memtable is above the threshold
\* and is now the newest of two immutable memtables
C7_Witness ==
    /\ PutDone(1) /\ th[1].ret = Ok
    /\ heap[th[1].mt].approximate_size > MemtableThreshold
    /\ Len(imm_memtables) >= 2
    /\ imm_memtables[1] = th[1].mt
    /\ heap[memtable].map = {}

\* the ids of the active memtable and the immutable memtables, in order
C8_Ids ==
    [i \in 1..(Len(imm_memtables) + 1) |->
        heap[(<<memtable>> \o imm_memtables)[i]].id]

\* C8: the ids of the active memtable followed by imm_memtables are
\* strictly descending, and no two memtables ever created share an id.
C8_RotationMonotonic ==
    /\ \A i, j \in 1..Len(C8_Ids) : i < j => C8_Ids[i] > C8_Ids[j]
    /\ \A a, b \in 1..Len(heap) : a # b => heap[a].id # heap[b].id

\* C8's case: two rotations have happened
C8_Witness == Len(imm_memtables) >= 2 /\ Len(heap) >= 3

\* C9: the flush step removes the oldest immutable memtable, inserts its
\* SST into sstables and prepends the SST's id to l0_sstables, all in one
\* step.
C9_FlushIsAtomicSwap ==
    [][(flush_worker = "idle" /\ flush_worker' # "idle") =>
          /\ imm_memtables' = SubSeq(imm_memtables, 1, Len(imm_memtables) - 1)
          /\ Len(l0_sstables') = Len(l0_sstables) + 1
          /\ Tail(l0_sstables') = l0_sstables
          /\ \E s \in sstables' :
                /\ s.id = l0_sstables'[1]
                /\ s.entries = heap[imm_memtables[Len(imm_memtables)]].map]_vars

\* C10: every memtable rotated into imm_memtables is eventually removed
\* from it.
C10_ImmEventuallyRetired ==
    \A a \in 1..(MaxPuts + 1) : InImm(a) ~> ~InImm(a)

(***************************************************************************)
(* C11..C13: the storage state and the memtable                            *)
(***************************************************************************)
\* the SST ids listed by l0_sstables and by the levels
ListedIds == l0_sstables \o Flatten(levels)

LastPutIn(a, k) ==
    LET P == {i \in PutsOn(k) : hist[i].mt = a}
    IN  IF P = {} THEN 0 ELSE CHOOSE i \in P : \A j \in P : j <= i

\* C12: a memtable holds at most one value per key; its get returns the
\* value of the last put of the key into it, and None for a key that was
\* never put into it.
C12_LastWriterWins ==
    \A a \in 1..Len(heap) :
        /\ \A e1, e2 \in heap[a].map : e1.key = e2.key => e1 = e2
        /\ \A k \in Keys :
              MemTableGet(heap[a], k) =
                 IF LastPutIn(a, k) = 0 THEN None
                 ELSE Some(hist[LastPutIn(a, k)].value)

\* C12's case: a key was put twice into one memtable with two values
C12_Witness ==
    \E a \in 1..Len(heap) : \E i, j \in 1..Len(hist) :
        /\ i < j /\ hist[i].mt = a /\ hist[j].mt = a
        /\ hist[i].key = hist[j].key /\ hist[i].value # hist[j].value
        /\ MemTableGet(heap[a], hist[j].key) = Some(hist[j].value)

\* the sizes of the puts of P, added up
RECURSIVE SumOfPuts(_)
SumOfPuts(P) ==
    IF P = {} THEN 0
    ELSE LET i == CHOOSE x \in P : TRUE
         IN  EstimatedSize(hist[i].key, hist[i].value) + SumOfPuts(P \ {i})

\* the puts into memtable a whose MemTable::put returned Ok
SuccessfulPuts(a) == {i \in 1..Len(hist) : hist[i].mt = a /\ hist[i].logged}

\* no MemTable::put is running on memtable a
Quiescent(a) ==
    \A t \in Threads : th[t].pc \in {"put_add", "put_wal"} => th[t].mt # a

\* C13: when no put is running on a memtable, its approximate_size is the
\* sum of len(key) + len(value) over the successful puts into it.
C13_SizeIsSumOfPuts ==
    \A a \in 1..Len(heap) :
        Quiescent(a) => heap[a].approximate_size = SumOfPuts(SuccessfulPuts(a))

(***************************************************************************)
(* Byte strings.  A Vec<u8> or &[u8] is a sequence of runs [b, n]: n >= 1  *)
(* bytes of value b, with neighbouring runs of different bytes, so that    *)
(* one byte string has one representation and a string of 2^32 bytes is    *)
(* as small as one of 2.                                                   *)
(***************************************************************************)
\* n bytes b
Rep(b, n) == IF n = 0 THEN <<>> ELSE <<[b |-> b, n |-> n]>>

\* s followed by t
BCat(s, t) ==
    IF s = <<>> THEN t
    ELSE IF t = <<>> THEN s
    ELSE IF s[Len(s)].b = t[1].b
         THEN SubSeq(s, 1, Len(s) - 1)
              \o <<[b |-> t[1].b, n |-> s[Len(s)].n + t[1].n]>>
              \o Tail(t)
         ELSE s \o t

\* the number of bytes of s
RECURSIVE BLen(_)
BLen(s) == IF s = <<>> THEN 0 ELSE s[1].n + BLen(Tail(s))

\* s without its first k bytes
RECURSIVE BDrop(_, _)
BDrop(s, k) ==
    IF k = 0 \/ s = <<>> THEN s
    ELSE IF s[1].n <= k THEN BDrop(Tail(s), k - s[1].n)
         ELSE <<[b |-> s[1].b, n |-> s[1].n - k]>> \o Tail(s)

\* the first k bytes of s
RECURSIVE BTake(_, _)
BTake(s, k) ==
    IF k = 0 \/ s = <<>> THEN <<>>
    ELSE IF s[1].n <= k THEN <<s[1]>> \o BTake(Tail(s), k - s[1].n)
         ELSE <<[b |-> s[1].b, n |-> k]>>

\* &s[from..to], for 0 <= from <= to <= s.len()
BSlice(s, from, to) == BTake(BDrop(s, from), to - from)

\* s[i], for i < s.len()
BAt(s, i) == BDrop(s, i)[1].b

\* the bytes of an explicit sequence of bytes
RECURSIVE BFromSeq(_)
BFromSeq(q) ==
    IF q = <<>> THEN <<>> ELSE BCat(Rep(Head(q), 1), BFromSeq(Tail(q)))

\* s < t in the byte-wise order of &[u8]
RECURSIVE BLess(_, _)
BLess(s, t) ==
    IF t = <<>> THEN FALSE
    ELSE IF s = <<>> THEN TRUE
    ELSE IF s[1].b # t[1].b THEN s[1].b < t[1].b
    ELSE LET m == IF s[1].n < t[1].n THEN s[1].n ELSE t[1].n
         IN  BLess(BDrop(s, m), BDrop(t, m))

\* x as u16
U16(x) == x % 65536

\* x as u32: x modulo 2^32, written with 16-bit halves because the integers
\* of TLC end at 2^31 - 1
U32(x) == (x % 65536) + 65536 * ((x \div 65536) % 65536)

\* put_u16_le
PutU16Le(x) == BCat(Rep(x % 256, 1), Rep((x \div 256) % 256, 1))

\* get_u16_le at position i of s, for i + 2 <= s.len()
GetU16Le(s, i) == BAt(s, i) + 256 * BAt(s, i + 1)

(***************************************************************************)
(* block.rs: BlockBuilder and Block                                        *)
(***************************************************************************)
SIZEOF_U16 == 2

\* BlockBuilder::new
BlockBuilderNew(block_size) ==
    [offsets |-> <<>>, data |-> <<>>, block_size |-> block_size]

\* BlockBuilder::is_empty
BlockBuilderIsEmpty(b) == b.offsets = <<>>

\* entry_size of add
EntrySize(key, value) == SIZEOF_U16 + BLen(key) + SIZEOF_U16 + BLen(value)

\* total_size_after of add
TotalSizeAfter(b, key, value) ==
    BLen(b.data) + Len(b.offsets) * SIZEOF_U16 + EntrySize(key, value)
    + SIZEOF_U16 + SIZEOF_U16

\* an add that is turned down above the target even by an empty builder
AddIsFullWhenEmpty(b, key, value) ==
    TotalSizeAfter(b, key, value) > b.block_size

\* an add that is turned down as soon as the target is reached
AddIsFullAtTarget(b, key, value) ==
    TotalSizeAfter(b, key, value) >= b.block_size /\ ~BlockBuilderIsEmpty(b)

\* the test of add: total_size_after > self.block_size && !self.is_empty()
AddIsFull(b, key, value) ==
    TotalSizeAfter(b, key, value) > b.block_size /\ ~BlockBuilderIsEmpty(b)

\* the bytes add appends to data: the two length fields are cast to u16
EntryBytes(key, value) ==
    BCat(BCat(BCat(PutU16Le(U16(BLen(key))), key),
              PutU16Le(U16(BLen(value)))), value)

\* BlockBuilder::add for a non-empty key: the builder after it and the
\* value returned
BlockBuilderAdd(b, key, value) ==
    IF AddIsFull(b, key, value)
    THEN [builder |-> b, ret |-> FALSE]
    ELSE [builder |-> [b EXCEPT !.offsets = Append(@, U16(BLen(b.data))),
                                !.data = BCat(@, EntryBytes(key, value))],
          ret |-> TRUE]

\* BlockBuilder::build
BlockBuilderBuild(b) == [data |-> b.data, offsets |-> b.offsets]

\* the offsets as encode writes them
RECURSIVE OffsetsBytes(_)
OffsetsBytes(offsets) ==
    IF offsets = <<>> THEN <<>>
    ELSE BCat(PutU16Le(Head(offsets)), OffsetsBytes(Tail(offsets)))

\* Block::encode
BlockEncode(block) ==
    BCat(BCat(block.data, OffsetsBytes(block.offsets)),
         PutU16Le(U16(Len(block.offsets))))

\* a call that panicked
Panicked == [ok |-> FALSE]

\* Block::decode; a subtraction below zero or a slice out of range panics
BlockDecode(bytes) ==
    IF BLen(bytes) < SIZEOF_U16 THEN Panicked
    ELSE LET num_of_elements == GetU16Le(bytes, BLen(bytes) - SIZEOF_U16)
             data_end == BLen(bytes) - SIZEOF_U16
                         - num_of_elements * SIZEOF_U16
         IN  IF data_end < 0 THEN Panicked
             ELSE [ok |-> TRUE,
                   data |-> BSlice(bytes, 0, data_end),
                   offsets |-> [i \in 1..num_of_elements |->
                       GetU16Le(bytes, data_end + (i - 1) * SIZEOF_U16)]]

\* Block::get_entry(idx), idx counted from 0; an index or a slice out of
\* range panics
BlockGetEntry(block, idx) ==
    IF idx >= Len(block.offsets) THEN Panicked
    ELSE
    LET start == block.offsets[idx + 1]
        end == IF idx + 1 < Len(block.offsets) THEN block.offsets[idx + 2]
               ELSE BLen(block.data)
    IN  IF start > end \/ end > BLen(block.data) THEN Panicked
        ELSE
        LET entry == BSlice(block.data, start, end)
        IN  IF BLen(entry) < 2 THEN Panicked
            ELSE
            LET key_len == GetU16Le(entry, 0)
            IN  IF 2 + key_len + 2 > BLen(entry) THEN Panicked
                ELSE
                LET value_len == GetU16Le(entry, 2 + key_len)
                IN  IF 2 + key_len + 2 + value_len > BLen(entry)
                    THEN Panicked
                    ELSE [ok |-> TRUE,
                          key |-> BSlice(entry, 2, 2 + key_len),
                          value |-> BSlice(entry, 2 + key_len + 2,
                                           2 + key_len + 2 + value_len)]

(***************************************************************************)
(* A BlockBuilder in use: new, add ..., build, encode, decode              *)
(***************************************************************************)
MaxAdds == 3

\* the target sizes, keys and values tried
BlockSizes == {0, 16, 23, 200000}
BlockKeys == {<<>>, Rep(1, 1), Rep(2, 2), Rep(3, 65536)}
BlockValues == {<<>>, Rep(9, 1), Rep(7, 40000)}

NoAdd == [key |-> <<>>, value |-> <<>>, ret |-> FALSE]

\* BlockBuilder::new(block_size); accepted lists the entries add took
BlockNew(block_size) ==
    [pc |-> "building", builder |-> BlockBuilderNew(block_size),
     adds |-> 0, accepted |-> <<>>, last |-> NoAdd,
     block |-> BlockBuilderBuild(BlockBuilderNew(block_size)),
     bytes |-> <<>>, decoded |-> Panicked]

BlockInit ==
    /\ StorageInit
    /\ blk \in {BlockNew(block_size) : block_size \in BlockSizes}
    /\ tbl = NoBuilder
    /\ UnitsIdle

\* builder.add(key, value); the assert! stops an empty key
BlockAdd(key, value) ==
    /\ blk.pc = "building"
    /\ blk.adds < MaxAdds
    /\ IF key = <<>>
       THEN blk' = [blk EXCEPT !.pc = "panicked"]
       ELSE LET r == BlockBuilderAdd(blk.builder, key, value)
            IN  blk' = [blk EXCEPT
                   !.builder = r.builder,
                   !.adds = @ + 1,
                   !.accepted = IF r.ret
                                THEN Append(@, [key |-> key, value |-> value])
                                ELSE @,
                   !.last = [key |-> key, value |-> value, ret |-> r.ret]]
    /\ UNCHANGED <<engine, tbl, units>>

\* builder.build()
BlockBuild ==
    /\ blk.pc = "building"
    /\ blk' = [blk EXCEPT !.pc = "built",
                          !.block = BlockBuilderBuild(blk.builder)]
    /\ UNCHANGED <<engine, tbl, units>>

\* block.encode()
BlockEncodeCall ==
    /\ blk.pc = "built"
    /\ blk' = [blk EXCEPT !.pc = "encoded", !.bytes = BlockEncode(blk.block)]
    /\ UNCHANGED <<engine, tbl, units>>

\* Block::decode(&bytes)
BlockDecodeCall ==
    /\ blk.pc = "encoded"
    /\ blk' = [blk EXCEPT !.pc = "decoded", !.decoded = BlockDecode(blk.bytes)]
    /\ UNCHANGED <<engine, tbl, units>>

BlockNext ==
    \/ \E key \in BlockKeys, value \in BlockValues : BlockAdd(key, value)
    \/ BlockBuild
    \/ BlockEncodeCall
    \/ BlockDecodeCall

BlockSpec == BlockInit /\ [][BlockNext]_vars

(***************************************************************************)
(* C14..C16: blocks                                                        *)
(***************************************************************************)
\* C14: for the entries a BlockBuilder accepted, decode(encode(build()))
\* has the offsets and the data of build(), and get_entry(i) of it returns
\* the key and the value of the i-th accepted entry.
C14_BlockRoundTrip ==
    blk.pc = "decoded" =>
        /\ blk.decoded.ok
        /\ blk.decoded.offsets = blk.block.offsets
        /\ blk.decoded.data = blk.block.data
        /\ \A i \in 1..Len(blk.accepted) :
              BlockGetEntry(blk.decoded, i - 1)
                 = [ok |-> TRUE, key |-> blk.accepted[i].key,
                    value |-> blk.accepted[i].value]

\* C15: add with a non-empty key returns true and appends the entry exactly
\* when the builder is empty or data_len + 2 * offset_count + 2 + len(key)
\* + 2 + len(value) + 2 + 2 <= target; otherwise it returns false and
\* leaves the builder as it was.
C15_AddAcceptsExactly ==
    [][(blk.pc = "building" /\ blk'.pc = "building") =>
          LET key == blk'.last.key
              value == blk'.last.value
              old == blk.builder
              new == blk'.builder
              fits == \/ Len(old.offsets) = 0
                      \/ BLen(old.data) + 2 * Len(old.offsets) + 2 + BLen(key)
                         + 2 + BLen(value) + 2 + 2 <= old.block_size
          IN  /\ blk'.last.ret = fits
              /\ fits => /\ Len(new.offsets) = Len(old.offsets) + 1
                         /\ BLen(new.data) = BLen(old.data) + 2 + BLen(key)
                                             + 2 + BLen(value)
                         /\ BSlice(new.data, 0, BLen(old.data)) = old.data
                         /\ BSlice(new.data, BLen(old.data) + 2,
                                   BLen(old.data) + 2 + BLen(key)) = key
                         /\ BDrop(new.data, BLen(old.data) + 2 + BLen(key) + 2)
                            = value
              /\ ~fits => new = old]_vars

\* C15's case: an add was taken at the exact target, one was taken by an
\* empty builder above the target, and one was turned down
C15_Witness ==
    /\ blk.pc = "building"
    /\ blk.builder.block_size = 16
    /\ Len(blk.accepted) = 2
    /\ BLen(blk.builder.data) + 2 * Len(blk.builder.offsets) + 2 = 16
    /\ blk.adds = 3
    /\ ~blk.last.ret

\* the byte position in data at which the i-th accepted entry starts
RECURSIVE EntryStart(_)
EntryStart(i) ==
    IF i = 1 THEN 0
    ELSE EntryStart(i - 1)
         + EntrySize(blk.accepted[i - 1].key, blk.accepted[i - 1].value)

\* C16: in every block built, offsets[0] is 0, the offsets are strictly
\* increasing and offsets[i] is the byte position in data at which the
\* i-th entry starts.
C16_OffsetsAreStarts ==
    blk.pc = "built" =>
        LET offsets == blk.block.offsets
        IN  /\ Len(offsets) = Len(blk.accepted)
            /\ offsets # <<>> => offsets[1] = 0
            /\ \A i \in 1..(Len(offsets) - 1) : offsets[i] < offsets[i + 1]
            /\ \A i \in 1..Len(offsets) : offsets[i] = EntryStart(i)

(***************************************************************************)
(* 32-bit words.  A u32 that is a hash or a checksum is a pair of 16-bit   *)
(* halves [hi, lo], since the integers of TLC end at 2^31 - 1.             *)
(***************************************************************************)
\* wrapping_add
WordAdd(a, b) ==
    [hi |-> (a.hi + b.hi + (a.lo + b.lo) \div 65536) % 65536,
     lo |-> (a.lo + b.lo) % 65536]

\* (h >> 15) | (h << 17)
WordRotate15(h) ==
    [hi |-> (h.lo \div 32768) + (h.hi % 32768) * 2,
     lo |-> (h.hi \div 32768) + (h.lo % 32768) * 2]

\* (h >> 17) | (h << 15)
WordRotate17(h) ==
    [hi |-> (h.lo \div 2) + (h.hi % 2) * 32768,
     lo |-> (h.hi \div 2) + (h.lo % 2) * 32768]

\* (h as usize) % n, for n below 46341
WordMod(h, n) == ((h.hi % n) * (65536 % n) + h.lo) % n

\* put_u32_le of a word
PutWordLe(w) == BCat(PutU16Le(w.lo), PutU16Le(w.hi))

\* put_u32_le of a number
PutU32Le(x) == BCat(PutU16Le(x % 65536), PutU16Le((x \div 65536) % 65536))

\* put_u64_le of a number
PutU64Le(x) == BCat(PutU32Le(x), PutU32Le((x \div 65536) \div 65536))

\* a 16-bit mix of the bytes of s, the unit of the two stand-ins below
RECURSIVE Mix(_, _)
Mix(s, acc) ==
    IF s = <<>> THEN acc
    ELSE Mix(Tail(s), (acc * 33 + s[1].b * 257 + (s[1].n % 65521)) % 65521)

\* crc32fast::Hasher over s: a stand-in that depends on every run of s
Crc32(s) == [hi |-> Mix(s, 1), lo |-> (Mix(s, 7) + BLen(s)) % 65536]

\* farmhash::fingerprint32(key): a stand-in
Fingerprint32(key) == [hi |-> Mix(key, 5381), lo |-> Mix(key, 40503)]

(***************************************************************************)
(* bloom.rs: Bloom                                                         *)
(***************************************************************************)
\* a usize: four 16-bit limbs, the least significant first
USizeOf(x) == <<x % 65536, (x \div 65536) % 65536, 0, 0>>

\* the usize is below 2^31
USizeFits(u) == u[2] < 32768 /\ u[3] = 0 /\ u[4] = 0

\* the number a usize below 2^31 stands for
USizeNat(u) == u[1] + 65536 * u[2]

\* u * n in 64 bits, for n below 2^15, and whether the product overflowed
USizeMul(u, n) ==
    LET p1 == u[1] * n
        p2 == u[2] * n + p1 \div 65536
        p3 == u[3] * n + p2 \div 65536
        p4 == u[4] * n + p3 \div 65536
    IN  [val |-> <<p1 % 65536, p2 % 65536, p3 % 65536, p4 % 65536>>,
         overflow |-> p4 >= 65536]

\* u + n in 64 bits, for n below 2^15, and whether the sum overflowed
USizeAdd(u, n) ==
    LET s1 == u[1] + n
        s2 == u[2] + s1 \div 65536
        s3 == u[3] + s2 \div 65536
        s4 == u[4] + s3 \div 65536
    IN  [val |-> <<s1 % 65536, s2 % 65536, s3 % 65536, s4 % 65536>>,
         overflow |-> s4 >= 65536]

\* u / 8
USizeDiv8(u) ==
    <<u[1] \div 8 + (u[2] % 8) * 8192, u[2] \div 8 + (u[3] % 8) * 8192,
      u[3] \div 8 + (u[4] % 8) * 8192, u[4] \div 8>>

\* a < b
USizeLess(a, b) ==
    \/ a[4] < b[4]
    \/ a[4] = b[4] /\ a[3] < b[3]
    \/ a[4] = b[4] /\ a[3] = b[3] /\ a[2] < b[2]
    \/ a[4] = b[4] /\ a[3] = b[3] /\ a[2] = b[2] /\ a[1] < b[1]

\* a.max(b)
USizeMax(a, b) == IF USizeLess(a, b) THEN b ELSE a

\* k of build_from_keys: (bits_per_key as f64 * 0.69) as u8, which is 255
\* from 370 bits per key on, clamped to [1, 30]
BloomK(bits_per_key) ==
    IF ~USizeFits(bits_per_key) \/ USizeNat(bits_per_key) >= 370 THEN 30
    ELSE LET k == (USizeNat(bits_per_key) * 69) \div 100
         IN  IF k < 1 THEN 1 ELSE IF k > 30 THEN 30 ELSE k

\* nbytes of build_from_keys.  The product and the sum are usize
\* operations: when one overflows, a build with overflow checks panics
\* and a build without them (wrap) goes on with the low 64 bits.
BloomNBytes(nkeys, bits_per_key, wrap) ==
    LET prod == USizeMul(bits_per_key, nkeys)
        sum == USizeAdd(USizeMax(prod.val, USizeOf(64)), 7)
    IN  [ok |-> wrap \/ (~prod.overflow /\ ~sum.overflow),
         nbytes |-> USizeDiv8(sum.val)]

\* the bit positions the probes of one key set
RECURSIVE Probes(_, _, _, _)
Probes(h, delta, k, nbits) ==
    IF k = 0 THEN {}
    ELSE {WordMod(h, nbits)} \cup Probes(WordAdd(h, delta), delta, k - 1, nbits)

\* the bits set for a list of keys
RECURSIVE BloomBits(_, _, _)
BloomBits(keys, k, nbits) ==
    IF keys = <<>> THEN {}
    ELSE LET h == Fingerprint32(Head(keys))
         IN  Probes(h, WordRotate17(h), k, nbits)
             \cup BloomBits(Tail(keys), k, nbits)

\* byte i of a filter with the given bits set
FilterByte(bits, i) ==
    (IF 8 * i \in bits THEN 1 ELSE 0) + (IF 8 * i + 1 \in bits THEN 2 ELSE 0)
    + (IF 8 * i + 2 \in bits THEN 4 ELSE 0)
    + (IF 8 * i + 3 \in bits THEN 8 ELSE 0)
    + (IF 8 * i + 4 \in bits THEN 16 ELSE 0)
    + (IF 8 * i + 5 \in bits THEN 32 ELSE 0)
    + (IF 8 * i + 6 \in bits THEN 64 ELSE 0)
    + (IF 8 * i + 7 \in bits THEN 128 ELSE 0)

\* a Bloom
BloomOf(filter, k) == [filter |-> filter, k |-> k]

\* build_from_keys panicked or the allocation of the filter failed
BloomPanicked == [ok |-> FALSE, bloom |-> BloomOf(<<>>, 0)]

\* the filter of build_from_keys: nbytes bytes with the bits of the probes
BloomFilter(keys, k, nbytes) ==
    BFromSeq([i \in 1..nbytes |->
                 FilterByte(BloomBits(keys, k, nbytes * 8), i - 1)])

\* Bloom::build_from_keys.  vec![0u8; nbytes] of 2^31 bytes and more is
\* taken to fail; with nbits = 0 the first probe divides by zero.
BloomBuildFromKeys(keys, bits_per_key, wrap) ==
    LET nb == BloomNBytes(Len(keys), bits_per_key, wrap)
    IN  IF ~nb.ok \/ ~USizeFits(nb.nbytes) THEN BloomPanicked
        ELSE IF USizeNat(nb.nbytes) = 0 /\ keys # <<>> THEN BloomPanicked
        ELSE [ok |-> TRUE,
              bloom |-> BloomOf(BloomFilter(keys, BloomK(bits_per_key),
                                            USizeNat(nb.nbytes)),
                                BloomK(bits_per_key))]

\* Bloom::encode
BloomEncode(bloom) == BCat(bloom.filter, Rep(bloom.k, 1))

\* Bloom::decode keeping the byte of k in the filter
BloomDecodeWholeBuffer(buf) ==
    IF buf = <<>> THEN BloomPanicked
    ELSE [ok |-> TRUE, bloom |-> BloomOf(buf, BAt(buf, BLen(buf) - 1))]

\* Bloom::decode; buf.len() - 1 of an empty buffer panics
BloomDecode(buf) ==
    IF buf = <<>> THEN BloomPanicked
    ELSE [ok |-> TRUE,
          bloom |-> BloomOf(BTake(buf, BLen(buf) - 1),
                            BAt(buf, BLen(buf) - 1))]

\* bit bit_pos of the filter is set
FilterBit(filter, bit_pos) ==
    (BAt(filter, bit_pos \div 8) \div (2 ^ (bit_pos % 8))) % 2 = 1

\* the loop of may_contain over the k probes left: the positions tested
\* and the result
RECURSIVE MayContainLoop(_, _, _, _, _)
MayContainLoop(filter, h, delta, k, tested) ==
    IF k = 0 THEN [ret |-> TRUE, tested |-> tested]
    ELSE LET bit_pos == WordMod(h, BLen(filter) * 8)
         IN  IF ~FilterBit(filter, bit_pos)
             THEN [ret |-> FALSE, tested |-> Append(tested, bit_pos)]
             ELSE MayContainLoop(filter, WordAdd(h, delta), delta, k - 1,
                                 Append(tested, bit_pos))

\* Bloom::may_contain: the result, and the positions tested on the way
MayContain(bloom, key) ==
    IF BLen(bloom.filter) * 8 = 0 THEN [ret |-> FALSE, tested |-> <<>>]
    ELSE MayContainLoop(bloom.filter, Fingerprint32(key),
                        WordRotate17(Fingerprint32(key)), bloom.k, <<>>)

(***************************************************************************)
(* sstable.rs: Footer and SsTableBuilder                                   *)
(***************************************************************************)
FOOTER_SIZE == 8 + 4 + 4 + 4

\* Footer::encode
FooterEncode(footer) ==
    BCat(BCat(BCat(PutU64Le(footer.file_size),
                   PutWordLe(footer.data_checksum)),
              PutWordLe(footer.index_checksum)),
         PutWordLe(footer.bloom_checksum))

\* Option<Vec<u8>>
NoKey == [some |-> FALSE, key |-> <<>>]
SomeKey(key) == [some |-> TRUE, key |-> key]

\* the Results of add and build
SstOk == "Ok"
FormatErr(msg) == "Format: " \o msg
IoErr == "Io"

\* get_u32_le at position i of s, as a word
GetWordLe(s, i) == [hi |-> GetU16Le(s, i + 2), lo |-> GetU16Le(s, i)]

\* get_u64_le at position i of s, for values below 2^31
GetU64Le(s, i) ==
    GetU16Le(s, i) + 65536 * (GetU16Le(s, i + 2)
        + 65536 * (GetU16Le(s, i + 4) + 65536 * GetU16Le(s, i + 6)))

\* the footer of a failed decode
NoFooter == [file_size |-> 0, data_checksum |-> [hi |-> 0, lo |-> 0],
             index_checksum |-> [hi |-> 0, lo |-> 0],
             bloom_checksum |-> [hi |-> 0, lo |-> 0]]

\* Footer::decode accepting a buffer longer than a footer
FooterDecodeAnyLength(buf) ==
    IF BLen(buf) < FOOTER_SIZE
    THEN [ret |-> FormatErr("invalid footer length"), footer |-> NoFooter]
    ELSE [ret |-> SstOk,
          footer |-> [file_size |-> GetU64Le(buf, 0),
                      data_checksum |-> GetWordLe(buf, 8),
                      index_checksum |-> GetWordLe(buf, 12),
                      bloom_checksum |-> GetWordLe(buf, 16)]]

\* Footer::decode
FooterDecode(buf) ==
    IF BLen(buf) # FOOTER_SIZE
    THEN [ret |-> FormatErr("invalid footer length"), footer |-> NoFooter]
    ELSE [ret |-> SstOk,
          footer |-> [file_size |-> GetU64Le(buf, 0),
                      data_checksum |-> GetWordLe(buf, 8),
                      index_checksum |-> GetWordLe(buf, 12),
                      bloom_checksum |-> GetWordLe(buf, 16)]]

\* SsTableBuilder::new
SsTableBuilderNew(block_size) ==
    [block_size |-> block_size,
     current_block |-> BlockBuilderNew(block_size),
     current_first_key |-> NoKey,
     block_meta |-> <<>>,
     data |-> <<>>,
     keys |-> <<>>]

\* a flush that takes the offset after the block was appended
FlushOffsetAfter(data, encoded) == U32(BLen(BCat(data, encoded)))

\* the offset of flush_current_block: self.data.len() as u32, taken before
\* the block is appended
FlushOffset(data, encoded) == U32(BLen(data))

\* SsTableBuilder::flush_current_block: the builder after it and its Result
FlushCurrentBlock(b) ==
    IF BlockBuilderIsEmpty(b.current_block)
    THEN [builder |-> b, ret |-> SstOk]
    ELSE IF ~b.current_first_key.some
    THEN [builder |-> b, ret |-> FormatErr("missing block first key")]
    ELSE LET encoded == BlockEncode(BlockBuilderBuild(b.current_block))
         IN  [builder |-> [b EXCEPT
                 !.current_first_key = NoKey,
                 !.current_block = BlockBuilderNew(b.block_size),
                 !.data = BCat(@, encoded),
                 !.block_meta = Append(@,
                     [offset |-> FlushOffset(b.data, encoded),
                      first_key |-> b.current_first_key.key])],
              ret |-> SstOk]

\* SsTableBuilder::add for a non-empty key: the builder after it and its
\* Result
SsTableBuilderAdd(b, key, value) ==
    LET b1 == IF BlockBuilderIsEmpty(b.current_block)
              THEN [b EXCEPT !.current_first_key = SomeKey(key)]
              ELSE b
        r1 == BlockBuilderAdd(b1.current_block, key, value)
    IN  IF r1.ret
        THEN [builder |-> [b1 EXCEPT !.current_block = r1.builder,
                                    !.keys = Append(@, key)],
              ret |-> SstOk]
        ELSE LET f == FlushCurrentBlock(b1)
                 b2 == [f.builder EXCEPT !.current_first_key = SomeKey(key)]
                 r2 == BlockBuilderAdd(b2.current_block, key, value)
             IN  IF f.ret # SstOk THEN f
                 ELSE IF ~r2.ret
                 THEN [builder |-> b2,
                       ret |-> FormatErr("entry too large for block")]
                 ELSE [builder |-> [b2 EXCEPT !.current_block = r2.builder,
                                             !.keys = Append(@, key)],
                       ret |-> SstOk]

\* SsTableBuilder::finish_data_blocks
FinishDataBlocks(b) ==
    IF ~BlockBuilderIsEmpty(b.current_block) THEN FlushCurrentBlock(b)
    ELSE [builder |-> b, ret |-> SstOk]

\* the loop of build_index_block over the metas left
RECURSIVE IndexAdd(_, _)
IndexAdd(index_builder, metas) ==
    IF metas = <<>> THEN [builder |-> index_builder, ret |-> SstOk]
    ELSE LET r == BlockBuilderAdd(index_builder, Head(metas).first_key,
                                  PutU32Le(Head(metas).offset))
         IN  IF ~r.ret
             THEN [builder |-> index_builder,
                   ret |-> FormatErr("index block too large")]
             ELSE IndexAdd(r.builder, Tail(metas))

\* an index block built without a limit on its size
BuildIndexBlockNoLimit(b) ==
    LET r == IndexAdd(BlockBuilderNew(1073741824), b.block_meta)
    IN  [bytes |-> IF r.ret = SstOk
                   THEN BlockEncode(BlockBuilderBuild(r.builder)) ELSE <<>>,
         ret |-> r.ret]

\* SsTableBuilder::build_index_block: the bytes and the Result
BuildIndexBlock(b) ==
    LET r == IndexAdd(BlockBuilderNew(b.block_size), b.block_meta)
    IN  [bytes |-> IF r.ret = SstOk
                   THEN BlockEncode(BlockBuilderBuild(r.builder)) ELSE <<>>,
         ret |-> r.ret]

\* a footer whose file_size leaves the footer out
FooterFileSizeNoFooter(footer_offset) == footer_offset

\* the file_size of build: footer_offset + FOOTER_SIZE as u64
FooterFileSize(footer_offset) == footer_offset + FOOTER_SIZE

\* the regions written with the bloom before the index
FileBytesBloomFirst(data, index_bytes, bloom_bytes, footer_bytes) ==
    BCat(BCat(BCat(data, bloom_bytes), index_bytes), footer_bytes)

\* the four write_all of build, in their order
FileBytes(data, index_bytes, bloom_bytes, footer_bytes) ==
    BCat(BCat(BCat(data, index_bytes), bloom_bytes), footer_bytes)

\* no file at the destination path
NoFile == [exists |-> FALSE, bytes |-> <<>>]

\* the handle of a build that returned an error
NoSsTable ==
    [id |-> 0, block_meta |-> <<>>, index_offset |-> 0, index_len |-> 0,
     bloom_offset |-> 0, bloom_len |-> 0,
     footer |-> [file_size |-> 0, data_checksum |-> Crc32(<<>>),
                 index_checksum |-> Crc32(<<>>),
                 bloom_checksum |-> Crc32(<<>>)]]

\* the ways the file I/O of build can go; a failed write or flush leaves
\* the first cut of the four regions in the file
BuildIo ==
    {[create |-> FALSE, cut |-> 0]}
    \cup {[create |-> TRUE, cut |-> c] : c \in 0..4}

\* the regions build has computed when it returns
NoParts == [data |-> <<>>, index |-> <<>>, bloom |-> <<>>]

\* a build that returns the error ret
BuildFail(fb, ret, file, parts) ==
    [builder |-> fb, ret |-> ret, sst |-> NoSsTable, file |-> file,
     parts |-> parts]

\* the offsets and lengths of build
BuildOffsets(data, index_bytes, bloom_bytes) ==
    LET index_offset == BLen(data)
        index_len == BLen(index_bytes)
        bloom_offset == index_offset + index_len
        bloom_len == BLen(bloom_bytes)
    IN  [index_offset |-> index_offset, index_len |-> index_len,
         bloom_offset |-> bloom_offset, bloom_len |-> bloom_len,
         footer_offset |-> bloom_offset + bloom_len]

\* the footer of build with the index checksum taken over the bloom bytes
BuildFooterIndexOverBloom(data, index_bytes, bloom_bytes, footer_offset) ==
    [file_size |-> FooterFileSize(footer_offset),
     data_checksum |-> Crc32(data),
     index_checksum |-> Crc32(bloom_bytes),
     bloom_checksum |-> Crc32(bloom_bytes)]

\* the footer of build
BuildFooter(data, index_bytes, bloom_bytes, footer_offset) ==
    [file_size |-> FooterFileSize(footer_offset),
     data_checksum |-> Crc32(data),
     index_checksum |-> Crc32(index_bytes),
     bloom_checksum |-> Crc32(bloom_bytes)]

\* the file after the writes of build: all four regions when cut is 4, the
\* first cut of them when a write or the flush failed
BuildWritten(data, index_bytes, bloom_bytes, footer_bytes, cut) ==
    [exists |-> TRUE,
     bytes |-> FileBytes(IF cut >= 1 THEN data ELSE <<>>,
                         IF cut >= 2 THEN index_bytes ELSE <<>>,
                         IF cut >= 3 THEN bloom_bytes ELSE <<>>,
                         IF cut >= 4 THEN footer_bytes ELSE <<>>)]

\* build from File::create on
BuildFile(fb, id, io, index_bytes, bloom_bytes, o, footer) ==
    IF ~io.create
    THEN BuildFail(fb, IoErr, NoFile,
                   [data |-> fb.data, index |-> index_bytes,
                    bloom |-> bloom_bytes])
    ELSE [builder |-> fb,
          ret |-> IF io.cut < 4 THEN IoErr ELSE SstOk,
          sst |-> IF io.cut < 4 THEN NoSsTable
                  ELSE [id |-> id, block_meta |-> fb.block_meta,
                        index_offset |-> o.index_offset,
                        index_len |-> o.index_len,
                        bloom_offset |-> o.bloom_offset,
                        bloom_len |-> o.bloom_len,
                        footer |-> footer],
          file |-> BuildWritten(fb.data, index_bytes, bloom_bytes,
                                FooterEncode(footer), io.cut),
          parts |-> [data |-> fb.data, index |-> index_bytes,
                     bloom |-> bloom_bytes]]

\* build once the index block is encoded: the bloom filter, the offsets,
\* the footer, the file
BuildRegions(fb, id, io, index_bytes, bloom_bytes) ==
    BuildFile(fb, id, io, index_bytes, bloom_bytes,
              BuildOffsets(fb.data, index_bytes, bloom_bytes),
              BuildFooter(fb.data, index_bytes, bloom_bytes,
                  BuildOffsets(fb.data, index_bytes, bloom_bytes).footer_offset))

\* build after finish_data_blocks
BuildIndexed(fb, id, io, index) ==
    IF index.ret # SstOk THEN BuildFail(fb, index.ret, NoFile, NoParts)
    ELSE BuildRegions(fb, id, io, index.bytes,
                      BloomEncode(BloomBuildFromKeys(fb.keys, USizeOf(10), TRUE).bloom))

\* build after finish_data_blocks returned f
BuildFinished(f, id, io) ==
    IF f.ret # SstOk THEN BuildFail(f.builder, f.ret, NoFile, NoParts)
    ELSE BuildIndexed(f.builder, id, io, BuildIndexBlock(f.builder))

\* SsTableBuilder::build(id, path, None): the builder after
\* finish_data_blocks, the Result, the handle, the file, and the three
\* regions that were computed
SsTableBuilderBuild(b, id, io) == BuildFinished(FinishDataBlocks(b), id, io)

(***************************************************************************)
(* SST.get, which sstable.rs declares no method for: the read path of the  *)
(* specification (section 4.4), on the handle and the file of build        *)
(***************************************************************************)
\* a get that panicked on a block it could not decode
GetPanicked == [tag |-> "Panic", val |-> <<>>]

\* the filter in the bloom region of the file
SsTableBloom(sst, file) ==
    BloomDecode(BSlice(file, sst.bloom_offset,
                       sst.bloom_offset + sst.bloom_len)).bloom

\* the last meta among the first n whose first_key <= key; 0 when none
RECURSIVE FindBlock(_, _, _)
FindBlock(block_meta, key, n) ==
    IF n = 0 THEN 0
    ELSE IF ~BLess(key, block_meta[n].first_key) THEN n
    ELSE FindBlock(block_meta, key, n - 1)

\* where data block i ends: at the next block, or at the index
BlockEnd(sst, i) ==
    IF i < Len(sst.block_meta) THEN sst.block_meta[i + 1].offset
    ELSE sst.index_offset

\* data block i, loaded from the file and decoded
SsTableReadBlock(sst, file, i) ==
    IF sst.block_meta[i].offset > BlockEnd(sst, i) THEN Panicked
    ELSE BlockDecode(BSlice(file, sst.block_meta[i].offset, BlockEnd(sst, i)))

\* the linear scan of a block for the key, from entry idx on
RECURSIVE BlockScan(_, _, _)
BlockScan(block, key, idx) ==
    IF idx >= Len(block.offsets) THEN None
    ELSE LET e == BlockGetEntry(block, idx)
         IN  IF ~e.ok THEN GetPanicked
             ELSE IF e.key = key THEN Some(e.value)
             ELSE BlockScan(block, key, idx + 1)

\* the candidate block is loaded and scanned
SsTableGetInBlock(sst, file, key, i) ==
    IF i = 0 THEN None
    ELSE IF ~SsTableReadBlock(sst, file, i).ok THEN GetPanicked
    ELSE BlockScan(SsTableReadBlock(sst, file, i), key, 0)

\* SST.get(key)
SsTableGet(sst, file, key) ==
    IF ~MayContain(SsTableBloom(sst, file), key).ret THEN None
    ELSE SsTableGetInBlock(sst, file, key,
                           FindBlock(sst.block_meta, key, Len(sst.block_meta)))

(***************************************************************************)
(* An SsTableBuilder in use: new, add ..., build, and get on the table     *)
(* built                                                                   *)
(***************************************************************************)
MaxSstAdds == 3

\* the block sizes, keys, values and SST ids tried
SstBlockSizes == {0, 16, 40, 4096}
SstKeys == {<<>>, Rep(1, 1), Rep(2, 1), Rep(3, 65536)}
SstValues == {<<>>, Rep(9, 30), Rep(7, 70000)}
SstIds == {1}
SstGetKeys == {Rep(1, 1), Rep(2, 1), Rep(3, 65536), Rep(4, 1)}

\* no get yet
NoGet == [called |-> FALSE, key |-> <<>>, ret |-> None]

\* SsTableBuilder::new(block_size); added lists the entries add took,
\* blocks the entries of each block flushed, cur those of the current block
SstNew(block_size) ==
    [pc |-> "building", builder |-> SsTableBuilderNew(block_size),
     adds |-> 0, added |-> <<>>, blocks |-> <<>>, cur |-> <<>>,
     last |-> [key |-> <<>>, value |-> <<>>, ret |-> SstOk],
     ret |-> SstOk, sst |-> NoSsTable, file |-> NoFile, parts |-> NoParts,
     got |-> NoGet]

SstInit ==
    /\ StorageInit
    /\ blk = NoBuilder
    /\ tbl \in {SstNew(block_size) : block_size \in SstBlockSizes}
    /\ UnitsIdle

\* builder.add(key, value); the assert! of BlockBuilder::add stops an empty
\* key
SstAdd(key, value) ==
    /\ tbl.pc = "building"
    /\ tbl.adds < MaxSstAdds
    /\ IF key = <<>>
       THEN tbl' = [tbl EXCEPT !.pc = "panicked"]
       ELSE LET r == SsTableBuilderAdd(tbl.builder, key, value)
                e == [key |-> key, value |-> value]
                flushed == Len(r.builder.block_meta)
                              > Len(tbl.builder.block_meta)
                ok == r.ret = SstOk
            IN  tbl' = [tbl EXCEPT
                   !.builder = r.builder,
                   !.adds = @ + 1,
                   !.added = IF ok THEN Append(@, e) ELSE @,
                   !.blocks = IF flushed THEN Append(@, tbl.cur) ELSE @,
                   !.cur = (IF flushed THEN <<>> ELSE @)
                           \o (IF ok THEN <<e>> ELSE <<>>),
                   !.last = [key |-> key, value |-> value, ret |-> r.ret]]
    /\ UNCHANGED <<engine, blk, units>>

\* builder.build(id, path, None)
SstBuild(id, io) ==
    /\ tbl.pc = "building"
    /\ LET r == SsTableBuilderBuild(tbl.builder, id, io)
           flushed == Len(r.builder.block_meta) > Len(tbl.builder.block_meta)
       IN  tbl' = [tbl EXCEPT
              !.pc = "built",
              !.builder = r.builder,
              !.blocks = IF flushed THEN Append(@, tbl.cur) ELSE @,
              !.cur = IF flushed THEN <<>> ELSE @,
              !.ret = r.ret, !.sst = r.sst, !.file = r.file,
              !.parts = r.parts]
    /\ UNCHANGED <<engine, blk, units>>

\* sst.get(key) on the table a build returned
SstGet(key) ==
    /\ tbl.pc = "built" /\ tbl.ret = SstOk
    /\ tbl' = [tbl EXCEPT !.got = [called |-> TRUE, key |-> key,
                  ret |-> SsTableGet(tbl.sst, tbl.file.bytes, key)]]
    /\ UNCHANGED <<engine, blk, units>>

SstNext ==
    \/ \E key \in SstKeys, value \in SstValues : SstAdd(key, value)
    \/ \E id \in SstIds, io \in BuildIo : SstBuild(id, io)
    \/ \E key \in SstGetKeys : SstGet(key)

SstSpec == SstInit /\ [][SstNext]_vars

(***************************************************************************)
(* C17..C20: SST files                                                     *)
(***************************************************************************)
\* C17: SsTableBuilder::add with a non-empty key never fails, whatever the
\* entry size and the block size, and every added key is recorded once, in
\* order, in the key list of the Bloom filter.
C17_SstAddNeverFails ==
    tbl.pc = "building" =>
        /\ tbl.last.ret = SstOk
        /\ Len(tbl.added) = tbl.adds
        /\ tbl.builder.keys = [i \in 1..Len(tbl.added) |-> tbl.added[i].key]

\* C17's case: a block was flushed and the fresh block took an entry that
\* is larger than the block size
C17_Witness ==
    /\ tbl.pc = "building"
    /\ tbl.builder.block_meta # <<>>
    /\ Len(tbl.cur) = 1
    /\ EntrySize(tbl.last.key, tbl.last.value) > tbl.builder.block_size
    /\ tbl.last.ret = SstOk
    /\ Len(tbl.builder.keys) = tbl.adds

\* the encoded block that holds the entries of group, in their order
RECURSIVE GroupBuilder(_, _)
GroupBuilder(group, block_size) ==
    IF group = <<>> THEN BlockBuilderNew(block_size)
    ELSE BlockBuilderAdd(
             GroupBuilder(SubSeq(group, 1, Len(group) - 1), block_size),
             group[Len(group)].key, group[Len(group)].value).builder

EncodedGroup(i) ==
    BlockEncode(BlockBuilderBuild(
        GroupBuilder(tbl.blocks[i], tbl.builder.block_size)))

\* the encoded blocks 1..n, one after the other
RECURSIVE EncodedGroups(_)
EncodedGroups(n) ==
    IF n = 0 THEN <<>> ELSE BCat(EncodedGroups(n - 1), EncodedGroup(n))

\* the keys were added in strictly ascending order
AddedAscending ==
    \A i, j \in 1..Len(tbl.added) :
        i < j => BLess(tbl.added[i].key, tbl.added[j].key)

C19_FileSizeAndRegions ==
    (tbl.pc = "built" /\ tbl.ret = SstOk) =>
        LET f == tbl.file.bytes
            h == tbl.sst
        IN  /\ tbl.file.exists
            /\ h.footer.file_size = BLen(f)
            /\ BLen(f) = BLen(tbl.parts.data) + BLen(tbl.parts.index)
                         + BLen(tbl.parts.bloom) + 20
            /\ h.index_offset = BLen(tbl.parts.data)
            /\ h.index_len = BLen(tbl.parts.index)
            /\ h.bloom_offset = h.index_offset + h.index_len
            /\ h.bloom_len = BLen(tbl.parts.bloom)
            /\ BSlice(f, 0, h.index_offset) = tbl.builder.data
            /\ BSlice(f, h.index_offset, h.bloom_offset) = tbl.parts.index
            /\ BSlice(f, h.bloom_offset, h.bloom_offset + h.bloom_len)
                  = tbl.parts.bloom
            /\ BDrop(f, h.bloom_offset + h.bloom_len)
                  = FooterEncode(h.footer)
            /\ BLen(FooterEncode(h.footer)) = FOOTER_SIZE

\* C19's case: a table with data, an index of two entries and a bloom
\* filter was built
C19_Witness ==
    /\ tbl.pc = "built" /\ tbl.ret = SstOk
    /\ Len(tbl.sst.block_meta) = 2
    /\ tbl.sst.index_offset > 0
    /\ tbl.sst.bloom_len = 9
    /\ tbl.sst.footer.file_size = BLen(tbl.file.bytes)

\* C20: the file written by build is the data blocks, the index block, the
\* bloom bytes, bloom_len as u32 little-endian, index_len as u32
\* little-endian, then the 20-byte footer.
C20_FileLayout ==
    (tbl.pc = "built" /\ tbl.ret = SstOk) =>
        tbl.file.bytes =
            BCat(BCat(BCat(BCat(BCat(tbl.parts.data, tbl.parts.index),
                                tbl.parts.bloom),
                           PutU32Le(tbl.sst.bloom_len)),
                      PutU32Le(tbl.sst.index_len)),
                 FooterEncode(tbl.sst.footer))


\* byte i of the little-endian form of the number x
RECURSIVE LeByte(_, _)
LeByte(x, i) == IF i = 0 THEN x % 256 ELSE LeByte(x \div 256, i - 1)

\* byte i of the little-endian form of the 32-bit word w
WordLeByte(w, i) == IF i < 2 THEN LeByte(w.lo, i) ELSE LeByte(w.hi, i - 2)

\* the footer read back from the last FOOTER_SIZE bytes of the written file
WrittenFooter ==
    FooterDecode(BSlice(tbl.file.bytes, BLen(tbl.file.bytes) - FOOTER_SIZE,
                        BLen(tbl.file.bytes))).footer

\* the bytes [from, from + len) of the written file
FileRegion(from, len) == BSlice(tbl.file.bytes, from, from + len)

\* C21: after a build that returned Ok, the three checksums in the footer
\* at the end of the written file are the CRC32 of exactly the bytes
\* [0, index_offset), [index_offset, index_offset + index_len) and
\* [bloom_offset, bloom_offset + bloom_len) of that file, and the handle
\* carries the same footer.
C21_FooterChecksums ==
    (tbl.pc = "built" /\ tbl.ret = SstOk) =>
        /\ BLen(tbl.file.bytes) >= FOOTER_SIZE
        /\ WrittenFooter = tbl.sst.footer
        /\ WrittenFooter.data_checksum
               = Crc32(FileRegion(0, tbl.sst.index_offset))
        /\ WrittenFooter.index_checksum
               = Crc32(FileRegion(tbl.sst.index_offset, tbl.sst.index_len))
        /\ WrittenFooter.bloom_checksum
               = Crc32(FileRegion(tbl.sst.bloom_offset, tbl.sst.bloom_len))

\* a build returned Ok for a table with two data blocks, whose three
\* regions are non-empty and pairwise different
C21_Witness ==
    /\ tbl.pc = "built" /\ tbl.ret = SstOk
    /\ Len(tbl.sst.block_meta) = 2
    /\ tbl.sst.index_offset > 0 /\ tbl.sst.index_len > 0
    /\ tbl.sst.bloom_len > 0
    /\ tbl.parts.data # tbl.parts.index
    /\ tbl.parts.index # tbl.parts.bloom


\* the index block read back from the index region build computed
IndexBlock == BlockDecode(tbl.parts.index)

\* C23: the index block written by build is a Block with exactly one entry
\* per BlockMeta, in block order; entry i has the first_key of meta i as its
\* key and the offset of meta i, as exactly 4 little-endian bytes, as its
\* value.
C23_IndexBlockEntries ==
    (tbl.pc = "built" /\ tbl.ret = SstOk) =>
        /\ IndexBlock.ok
        /\ Len(IndexBlock.offsets) = Len(tbl.sst.block_meta)
        /\ \A i \in 1..Len(tbl.sst.block_meta) :
              LET e == BlockGetEntry(IndexBlock, i - 1)
                  meta == tbl.sst.block_meta[i]
              IN  /\ e.ok
                  /\ e.key = meta.first_key
                  /\ BLen(e.value) = 4
                  /\ \A j \in 0..3 : BAt(e.value, j) = LeByte(meta.offset, j)


\* the entry added with the key of the last get, if there is one
AddedWith(key) == {i \in 1..Len(tbl.added) : tbl.added[i].key = key}

\* C28: for entries added in strictly ascending key order and a build that
\* returned Ok, get of an added key returns its value, and get of a key
\* that was not added returns None.
C28_SstGetCorrect ==
    (tbl.pc = "built" /\ tbl.got.called /\ AddedAscending) =>
        /\ \A i \in AddedWith(tbl.got.key) :
              tbl.got.ret = Some(tbl.added[i].value)
        /\ AddedWith(tbl.got.key) = {} => tbl.got.ret = None

(***************************************************************************)
(* A Footer in use: encode, then decode of the buffer or of a buffer of    *)
(* another length                                                          *)
(***************************************************************************)
\* the file sizes, the checksums and the wrong buffer lengths tried
FooterFileSizes == {0, 20, 31, 65536, 2147483647}
FooterChecksums ==
    {[hi |-> 0, lo |-> 0], [hi |-> 4660, lo |-> 43981],
     [hi |-> 65535, lo |-> 65535]}
FooterCuts == {0, 12, 19}
FooterExtras == {1, 20}

\* Footer::new
FooterNew(file_size, data_checksum, index_checksum, bloom_checksum) ==
    [file_size |-> file_size, data_checksum |-> data_checksum,
     index_checksum |-> index_checksum, bloom_checksum |-> bloom_checksum]

FooterInit ==
    /\ StorageInit
    /\ blk = NoBuilder
    /\ tbl = NoBuilder
    /\ ftr \in {[pc |-> "new", footer |-> FooterNew(fs, d, x, b),
                 buf |-> <<>>, resized |-> FALSE,
                 decoded |-> [ret |-> SstOk, footer |-> NoFooter]] :
                    fs \in FooterFileSizes, d \in FooterChecksums,
                    x \in FooterChecksums, b \in FooterChecksums}
    /\ blm = NoBuilder
    /\ wlog = NoBuilder
    /\ rds = NoBuilder

\* footer.encode()
FooterEncodeCall ==
    /\ ftr.pc = "new"
    /\ ftr' = [ftr EXCEPT !.pc = "encoded", !.buf = FooterEncode(ftr.footer)]
    /\ UNCHANGED <<engine, builders, blm, wlog, rds>>

\* the caller keeps only the first n bytes of the buffer
FooterCut(n) ==
    /\ ftr.pc = "encoded"
    /\ ftr' = [ftr EXCEPT !.pc = "resized", !.resized = TRUE,
                          !.buf = BTake(ftr.buf, n)]
    /\ UNCHANGED <<engine, builders, blm, wlog, rds>>

\* the caller takes n bytes more than the footer
FooterExtend(n) ==
    /\ ftr.pc = "encoded"
    /\ ftr' = [ftr EXCEPT !.pc = "resized", !.resized = TRUE,
                          !.buf = BCat(Rep(0, n), ftr.buf)]
    /\ UNCHANGED <<engine, builders, blm, wlog, rds>>

\* Footer::decode(&buf)
FooterDecodeCall ==
    /\ ftr.pc \in {"encoded", "resized"}
    /\ ftr' = [ftr EXCEPT !.pc = "decoded", !.decoded = FooterDecode(ftr.buf)]
    /\ UNCHANGED <<engine, builders, blm, wlog, rds>>

FooterNext ==
    \/ FooterEncodeCall
    \/ \E n \in FooterCuts : FooterCut(n)
    \/ \E n \in FooterExtras : FooterExtend(n)
    \/ FooterDecodeCall

FooterSpec == FooterInit /\ [][FooterNext]_vars

\* C22: encode yields exactly 20 bytes, file_size as 8 little-endian bytes
\* and then the data, index and bloom checksums as 4 little-endian bytes
\* each; decode of those bytes returns the four fields; decode of a buffer
\* whose length is not 20 returns the Format error.
C22_FooterRoundTrip ==
    /\ (ftr.pc \in {"encoded", "decoded"} /\ ~ftr.resized) =>
          /\ BLen(ftr.buf) = 20
          /\ \A i \in 0..7 : BAt(ftr.buf, i) = LeByte(ftr.footer.file_size, i)
          /\ \A i \in 0..3 :
                /\ BAt(ftr.buf, 8 + i)
                      = WordLeByte(ftr.footer.data_checksum, i)
                /\ BAt(ftr.buf, 12 + i)
                      = WordLeByte(ftr.footer.index_checksum, i)
                /\ BAt(ftr.buf, 16 + i)
                      = WordLeByte(ftr.footer.bloom_checksum, i)
    /\ (ftr.pc = "decoded" /\ ~ftr.resized) =>
          /\ ftr.decoded.ret = SstOk
          /\ ftr.decoded.footer = ftr.footer
    /\ (ftr.pc = "decoded" /\ BLen(ftr.buf) # 20) =>
          ftr.decoded.ret = FormatErr("invalid footer length")

\* a footer with a file size of more than two bytes and three different
\* checksums went through encode and decode
C22_Witness ==
    /\ ftr.pc = "decoded" /\ ~ftr.resized
    /\ ftr.footer.file_size = 2147483647
    /\ ftr.footer.data_checksum # ftr.footer.index_checksum
    /\ ftr.footer.index_checksum # ftr.footer.bloom_checksum
    /\ ftr.footer.data_checksum # ftr.footer.bloom_checksum
    /\ ftr.decoded.footer = ftr.footer

(***************************************************************************)
(* A Bloom in use: build_from_keys, may_contain, encode, decode,           *)
(* may_contain                                                             *)
(***************************************************************************)
MaxBloomKeys == 2

\* the keys, the key lists, the bits per key and the probed keys tried
BloomKeys == {<<>>, Rep(1, 1), Rep(2, 2), Rep(3, 65536)}
BloomKeyLists == UNION {[1..n -> BloomKeys] : n \in 0..MaxBloomKeys}
BloomBitsPerKey ==
    {USizeOf(0), USizeOf(1), USizeOf(10), USizeOf(45),
     <<0, 0, 0, 32768>>, <<65535, 65535, 65535, 65535>>}
BloomProbeKeys == BloomKeys \cup {Rep(4, 1)}

\* no may_contain yet
NoProbe == [probed |-> FALSE, key |-> <<>>, on |-> "none", ret |-> FALSE,
            tested |-> <<>>]

BloomInit ==
    /\ StorageInit
    /\ blk = NoBuilder
    /\ tbl = NoBuilder
    /\ ftr = NoBuilder
    /\ blm \in {[pc |-> "new", keys |-> keys, bits_per_key |-> bpk,
                 wrap |-> wrap, built |-> BloomPanicked, bytes |-> <<>>,
                 decoded |-> BloomPanicked, last |-> NoProbe] :
                    keys \in BloomKeyLists, bpk \in BloomBitsPerKey,
                    wrap \in BOOLEAN}
    /\ wlog = NoBuilder
    /\ rds = NoBuilder

\* Bloom::build_from_keys(&keys, bits_per_key)
BloomBuild ==
    /\ blm.pc = "new"
    /\ LET r == BloomBuildFromKeys(blm.keys, blm.bits_per_key, blm.wrap)
       IN  blm' = [blm EXCEPT !.pc = IF r.ok THEN "built" ELSE "panicked",
                              !.built = r]
    /\ UNCHANGED <<engine, builders, ftr, wlog, rds>>

\* bloom.encode(&mut buf)
BloomEncodeCall ==
    /\ blm.pc = "built"
    /\ blm' = [blm EXCEPT !.pc = "encoded",
                          !.bytes = BloomEncode(blm.built.bloom)]
    /\ UNCHANGED <<engine, builders, ftr, wlog, rds>>

\* Bloom::decode(&buf)
BloomDecodeCall ==
    /\ blm.pc = "encoded"
    /\ blm' = [blm EXCEPT !.pc = "decoded",
                          !.decoded = BloomDecode(blm.bytes)]
    /\ UNCHANGED <<engine, builders, ftr, wlog, rds>>

\* the Bloom a may_contain is called on: the decoded one once there is one
BloomInHand == IF blm.pc = "decoded" THEN blm.decoded.bloom
               ELSE blm.built.bloom

\* bloom.may_contain(key)
BloomMayContain(key) ==
    /\ blm.pc \in {"built", "encoded", "decoded"}
    /\ blm.pc = "decoded" => blm.decoded.ok
    /\ LET r == MayContain(BloomInHand, key)
       IN  blm' = [blm EXCEPT !.last = [probed |-> TRUE, key |-> key,
                                        on |-> blm.pc, ret |-> r.ret,
                                        tested |-> r.tested]]
    /\ UNCHANGED <<engine, builders, ftr, wlog, rds>>

BloomNext ==
    \/ BloomBuild
    \/ BloomEncodeCall
    \/ BloomDecodeCall
    \/ \E key \in BloomProbeKeys : BloomMayContain(key)

BloomSpec == BloomInit /\ [][BloomNext]_vars

(***************************************************************************)
(* C24..C26: Bloom filters                                                 *)
(***************************************************************************)
\* the keys given to build_from_keys
BloomKeySet == {blm.keys[i] : i \in 1..Len(blm.keys)}

\* C24: may_contain of a key that was in the key list given to
\* build_from_keys returns true, on the built filter and on the filter
\* decoded from its encoding; the decoded filter is the built one.
C24_BloomSoundness ==
    /\ (blm.pc = "decoded") =>
          /\ blm.decoded.ok
          /\ blm.decoded.bloom = blm.built.bloom
    /\ (blm.pc \in {"built", "encoded", "decoded"} /\ blm.last.probed
          /\ blm.last.key \in BloomKeySet) => blm.last.ret

\* may_contain of the second of two different keys returned true on a
\* decoded filter of more than 64 bits
C24_Witness ==
    /\ blm.pc = "decoded"
    /\ Len(blm.keys) = 2 /\ blm.keys[1] # blm.keys[2]
    /\ BLen(blm.decoded.bloom.filter) * 8 > 64
    /\ blm.last.probed /\ blm.last.on = "decoded"
    /\ blm.last.key = blm.keys[2]
    /\ blm.last.ret

\* n * bits_per_key, 64 at least, rounded up to a multiple of 8: the
\* number, or that it is 2^64 or more
BloomBitsClaimed ==
    LET prod == USizeMul(blm.bits_per_key, Len(blm.keys))
        sum == USizeAdd(USizeMax(prod.val, USizeOf(64)), 7)
    IN  [huge |-> prod.overflow \/ sum.overflow,
         bits |-> USizeMul(USizeDiv8(sum.val), 8).val]

\* floor(bits_per_key * 0.69) clamped to [1, 30]
BloomKClaimed ==
    IF ~USizeFits(blm.bits_per_key) \/ USizeNat(blm.bits_per_key) >= 44
    THEN 30
    ELSE IF USizeNat(blm.bits_per_key) < 2 THEN 1
    ELSE (USizeNat(blm.bits_per_key) * 69) \div 100

\* C25: the built filter has a bit count that is a multiple of 8, at least
\* 64, and equal to max(n * bits_per_key, 64) rounded up to a multiple of
\* 8; its k is floor(bits_per_key * 0.69) clamped to [1, 30].
C25_BloomSizing ==
    blm.pc \in {"built", "encoded", "decoded"} =>
        /\ (BLen(blm.built.bloom.filter) * 8) % 8 = 0
        /\ BLen(blm.built.bloom.filter) * 8 >= 64
        /\ ~BloomBitsClaimed.huge
        /\ USizeOf(BLen(blm.built.bloom.filter) * 8) = BloomBitsClaimed.bits
        /\ blm.built.bloom.k = BloomKClaimed

\* bit j of the 32-bit word w
WordBit(w, j) ==
    IF j < 16 THEN (w.lo \div (2 ^ j)) % 2 ELSE (w.hi \div (2 ^ (j - 16))) % 2

\* d is w rotated right by 17 bits: bit j of d is bit j + 17 of w
IsRotatedRight17(d, w) ==
    \A j \in 0..31 : WordBit(d, j) = WordBit(w, (j + 17) % 32)

\* h + i * delta with 32-bit wrap-around, for i up to 30
WordPlusTimes(h, i, delta) ==
    [hi |-> (h.hi + i * delta.hi + (h.lo + i * delta.lo) \div 65536) % 65536,
     lo |-> (h.lo + i * delta.lo) % 65536]

\* the k positions claimed for a key in a filter of nbits bits
ClaimedPositions(key, k, nbits) ==
    [i \in 1..k |->
        WordMod(WordPlusTimes(Fingerprint32(key), i - 1,
                              WordRotate17(Fingerprint32(key))), nbits)]

\* the bits set in a filter
BitsSet(filter) == {p \in 0..(BLen(filter) * 8 - 1) : FilterBit(filter, p)}

\* the positions of a sequence
Range(q) == {q[i] : i \in 1..Len(q)}

\* C26: delta is h rotated right by 17 bits; the bits build sets are
\* exactly the positions (h + i * delta) mod nbits, i in [0, k), of the
\* keys given; may_contain tests those positions of its key in that order,
\* stops at the first bit that is not set, and returns true exactly when
\* all k of them are set.
C26_BloomProbing ==
    /\ \A key \in BloomProbeKeys :
          IsRotatedRight17(WordRotate17(Fingerprint32(key)),
                           Fingerprint32(key))
    /\ blm.pc \in {"built", "encoded", "decoded"} =>
          BitsSet(blm.built.bloom.filter)
             = UNION {Range(ClaimedPositions(key, blm.built.bloom.k,
                                BLen(blm.built.bloom.filter) * 8)) :
                         key \in BloomKeySet}
    /\ (blm.pc \in {"built", "encoded", "decoded"} /\ blm.last.probed) =>
          LET claimed == ClaimedPositions(blm.last.key, BloomInHand.k,
                                          BLen(BloomInHand.filter) * 8)
              bits == BitsSet(BloomInHand.filter)
          IN  /\ Len(blm.last.tested) <= Len(claimed)
              /\ blm.last.tested = SubSeq(claimed, 1, Len(blm.last.tested))
              /\ blm.last.ret <=> Range(claimed) \subseteq bits
              /\ blm.last.ret => blm.last.tested = claimed
              /\ ~blm.last.ret =>
                    blm.last.tested[Len(blm.last.tested)] \notin bits

\* a may_contain on a decoded filter returned true after testing 30
\* positions, not all the same
C26_Witness ==
    /\ blm.pc = "decoded"
    /\ blm.last.probed /\ blm.last.ret
    /\ Len(blm.last.tested) = 30
    /\ Cardinality(Range(blm.last.tested)) > 1

(***************************************************************************)
(* wal.rs at the level of bytes: Wal::create, then Wal::put ...            *)
(***************************************************************************)
MaxWalPuts == 3

\* the capacity of BufWriter::new
WalBufCapacity == 8192

\* the keys and values tried, and the number of bytes a failing write gets
\* out before it fails
WalKeys == {<<>>, Rep(1, 1), Rep(3, 65536)}
WalValues == {<<>>, Rep(9, 1), Rep(7, 8200)}
WalCuts == {0, 5}
WalIo == [flush : BOOLEAN, write : BOOLEAN, cut : WalCuts]

\* the record of Wal::put: key_len, key, val_len, value, and the checksum
\* of these
WalRecord(key, value) ==
    LET body == BCat(BCat(BCat(PutU16Le(U16(BLen(key))), key),
                          PutU16Le(U16(BLen(value)))), value)
    IN  BCat(body, PutWordLe(Crc32(body)))

\* a write that fails after cut bytes of s: what went out and what is left
WalCutAt(s, cut) == IF cut < BLen(s) THEN cut ELSE BLen(s)

\* BufWriter::write_all(&buf) of the bytes rec, as WalWriteAll above, with
\* the buffer and the file as bytes.  A failing flush or write may have
\* put a first part of its bytes into the file.
WalWriteAllBytes(w, rec, io) ==
    LET spare == WalBufCapacity - BLen(w.buf)
        flushed == [buf |-> <<>>, file |-> BCat(w.file, w.buf)]
    IN  IF BLen(rec) < spare
        THEN [ok |-> TRUE, wal |-> [w EXCEPT !.buf = BCat(w.buf, rec)]]
        ELSE IF BLen(rec) > spare /\ w.buf # <<>> /\ ~io.flush
        THEN [ok |-> FALSE,
              wal |-> [buf |-> BDrop(w.buf, WalCutAt(w.buf, io.cut)),
                       file |-> BCat(w.file,
                                     BTake(w.buf, WalCutAt(w.buf, io.cut)))]]
        ELSE LET w1 == IF BLen(rec) > spare THEN flushed ELSE w
             IN  IF BLen(rec) >= WalBufCapacity
                 THEN IF ~io.write
                      THEN [ok |-> FALSE,
                            wal |-> [w1 EXCEPT !.file =
                               BCat(w1.file,
                                    BTake(rec, WalCutAt(rec, io.cut)))]]
                      ELSE [ok |-> TRUE,
                            wal |-> [w1 EXCEPT !.file = BCat(w1.file, rec)]]
                 ELSE [ok |-> TRUE,
                       wal |-> [w1 EXCEPT !.buf = BCat(w1.buf, rec)]]

\* Wal::put at the level of bytes
WalPutBytes(w, key, value, io) == WalWriteAllBytes(w, WalRecord(key, value), io)

\* the bytes handed to the log so far: the file, then the writer's buffer
WalStream(w) == BCat(w.file, w.buf)

WalInit ==
    /\ StorageInit
    /\ blk = NoBuilder
    /\ tbl = NoBuilder
    /\ ftr = NoBuilder
    /\ blm = NoBuilder
    /\ wlog = [pc |-> "open", wal |-> [buf |-> <<>>, file |-> <<>>],
               puts |-> 0,
               last |-> [key |-> <<>>, value |-> <<>>, ok |-> FALSE,
                         before |-> <<>>]]
    /\ rds = NoBuilder

\* wal.put(key, value)
WalPutCall(key, value, io) ==
    /\ wlog.pc = "open"
    /\ wlog.puts < MaxWalPuts
    /\ LET r == WalPutBytes(wlog.wal, key, value, io)
       IN  wlog' = [wlog EXCEPT
                       !.wal = r.wal, !.puts = @ + 1,
                       !.last = [key |-> key, value |-> value, ok |-> r.ok,
                                 before |-> WalStream(wlog.wal)]]
    /\ UNCHANGED <<engine, builders, ftr, blm, rds>>

WalNext ==
    \E key \in WalKeys, value \in WalValues, io \in WalIo :
        WalPutCall(key, value, io)

WalSpec == WalInit /\ [][WalNext]_vars

\* the bytes the last put added to the log
WalAppended ==
    BDrop(WalStream(wlog.wal), BLen(wlog.last.before))

\* C27: a Wal::put that returns Ok appends exactly one record of
\* len(key) + len(value) + 8 bytes: the length of the key as a
\* little-endian u16, the key, the length of the value as a little-endian
\* u16, the value, and the CRC32, little-endian, of all the bytes of the
\* record before it; no put changes a byte that was in the log before.
C27_WalRecordLayout ==
    wlog.pc = "open" /\ wlog.puts > 0 =>
        /\ BLen(WalStream(wlog.wal)) >= BLen(wlog.last.before)
        /\ BTake(WalStream(wlog.wal), BLen(wlog.last.before))
              = wlog.last.before
        /\ wlog.last.ok =>
              LET rec == WalAppended
                  kl == BLen(wlog.last.key)
                  vl == BLen(wlog.last.value)
              IN  /\ BLen(rec) = kl + vl + 8
                  /\ GetU16Le(rec, 0) = kl
                  /\ BSlice(rec, 2, 2 + kl) = wlog.last.key
                  /\ GetU16Le(rec, 2 + kl) = vl
                  /\ BSlice(rec, 4 + kl, 4 + kl + vl) = wlog.last.value
                  /\ GetWordLe(rec, 4 + kl + vl)
                        = Crc32(BTake(rec, 4 + kl + vl))

(***************************************************************************)
(* mini-redis: the Db (db.rs), SET and GET (command.rs), the purge task    *)
(***************************************************************************)
NumClients == 2
MaxTime == 2
MaxSets == 2

\* the sleep of the purge task when no expiration is queued, in seconds
PurgeIdleSleep == 60

Clients == 1..NumClients
RedisKeys == {"a", "b"}
RedisValues == {"v", "w"}

\* Option<Duration>: no EX, or EX secs
NoExpire == [some |-> FALSE, secs |-> 0]
RedisExpires == {NoExpire} \cup {[some |-> TRUE, secs |-> n] : n \in 1..2}

\* no Entry under a key, and an Entry
NoEntry == [present |-> FALSE, data |-> "", expires |-> FALSE, at |-> 0]
EntryOf(data, expires, at) ==
    [present |-> TRUE, data |-> data, expires |-> expires, at |-> at]

\* Db::get at the instant now
DbGet(state, key, now) ==
    IF ~state[key].present THEN None
    ELSE IF state[key].expires /\ now >= state[key].at THEN None
    ELSE Some(state[key].data)

\* expires_at of Db::set at the instant now
ExpiresAt(expire, now) == IF expire.some THEN now + expire.secs ELSE 0

\* state.insert of Db::set
DbSetInsert(state, key, value, expire, now) ==
    [state EXCEPT ![key] = EntryOf(value, expire.some, ExpiresAt(expire, now))]

\* SkipMap::insert: an entry under the same Instant is replaced
ExpirationsInsert(exps, at, key, id) ==
    {n \in exps : n.at # at} \cup {[at |-> at, key |-> key, id |-> id]}

\* SkipMap::front: the entry with the least Instant
ExpirationsFront(exps) == CHOOSE n \in exps : \A m \in exps : n.at <= m.at

\* the frames of Command::apply for GET
NullBulk == [frame |-> "BulkString", some |-> FALSE, val |-> ""]
Bulk(val) == [frame |-> "BulkString", some |-> TRUE, val |-> val]
ApplyGet(found) == IF found = None THEN NullBulk ELSE Bulk(found.val)

\* no expiration in hand
NoNode == [at |-> 0, key |-> "", id |-> 0]

\* DashMap: two keys are behind the same RwLock when they are in one shard
SameShard(k1, k2) == k1 = k2 \/ rds.one_shard

\* the purge task called state.remove(key) while it holds the Ref that
\* state.get(key) returned: it waits for the write lock of the shard it
\* has read-locked itself, for ever
PurgeDeadlocked == rds.purge.pc = "deadlocked"

\* the shard of key is read-locked by the purge task, which waits to write
ShardStuck(key) == PurgeDeadlocked /\ SameShard(rds.purge.cur.key, key)

RedisInit ==
    /\ StorageInit
    /\ blk = NoBuilder
    /\ tbl = NoBuilder
    /\ ftr = NoBuilder
    /\ blm = NoBuilder
    /\ wlog = NoBuilder
    /\ rds \in {[pc |-> "run", now |-> 0,
                 state |-> [k \in RedisKeys |-> NoEntry],
                 expirations |-> {}, next_id |-> 1, permit |-> FALSE,
                 purge |-> [pc |-> "top", now |-> 0, cur |-> NoNode,
                            wake |-> 0],
                 cl |-> [c \in Clients |->
                            [pc |-> "idle", key |-> "", at |-> 0]],
                 sets |-> 0,
                 lastset |-> [k \in RedisKeys |-> NoEntry],
                 last |-> [called |-> FALSE, key |-> "", time |-> 0,
                           set |-> NoEntry, reply |-> NullBulk],
                 one_shard |-> one_shard] : one_shard \in BOOLEAN}

\* a second passes
RedisTick ==
    /\ rds.pc = "run"
    /\ rds.now < MaxTime
    /\ rds' = [rds EXCEPT !.now = @ + 1]
    /\ UNCHANGED <<engine, builders, ftr, blm, wlog>>

\* GET key from client c: Command::apply calls Db::get and writes the
\* frame.  With the shard stuck, state.get waits for ever where the RwLock
\* lets no reader in while a writer waits (readers_wait), and goes on
\* where it does.
RedisGet(c, key, readers_wait) ==
    /\ rds.cl[c].pc = "idle"
    /\ IF ShardStuck(key) /\ readers_wait
       THEN rds' = [rds EXCEPT !.cl[c] = [pc |-> "blocked_get", key |-> key,
                                          at |-> rds.now]]
       ELSE rds' = [rds EXCEPT !.last =
                [called |-> TRUE, key |-> key, time |-> rds.now,
                 set |-> rds.lastset[key],
                 reply |-> ApplyGet(DbGet(rds.state, key, rds.now))]]
    /\ UNCHANGED <<engine, builders, ftr, blm, wlog>>

\* SET key value [EX secs] from client c, up to state.insert; with the
\* shard stuck the insert waits for the write lock for ever
RedisSet(c, key, value, expire) ==
    /\ rds.cl[c].pc = "idle"
    /\ rds.sets < MaxSets
    /\ IF ShardStuck(key)
       THEN rds' = [rds EXCEPT !.cl[c].pc = "blocked_set", !.sets = @ + 1]
       ELSE rds' = [rds EXCEPT
                !.state = DbSetInsert(@, key, value, expire, rds.now),
                !.lastset = DbSetInsert(@, key, value, expire, rds.now),
                !.sets = @ + 1,
                !.cl[c] = IF expire.some
                          THEN [pc |-> "set_expire", key |-> key,
                                at |-> ExpiresAt(expire, rds.now)]
                          ELSE [pc |-> "idle", key |-> "", at |-> 0]]
    /\ UNCHANGED <<engine, builders, ftr, blm, wlog>>

\* the rest of Db::set with an expiry: expirations.insert and notify_one
RedisSetExpire(c) ==
    /\ rds.cl[c].pc = "set_expire"
    /\ rds' = [rds EXCEPT
          !.expirations = ExpirationsInsert(@, rds.cl[c].at, rds.cl[c].key,
                                            rds.next_id),
          !.next_id = @ + 1,
          !.permit = TRUE,
          !.cl[c] = [pc |-> "idle", key |-> "", at |-> 0]]
    /\ UNCHANGED <<engine, builders, ftr, blm, wlog>>

\* purge_expired_tasks, the top of the loop: now = Instant::now()
PurgeTop ==
    /\ rds.purge.pc = "top"
    /\ rds' = [rds EXCEPT !.purge.pc = "front", !.purge.now = rds.now]
    /\ UNCHANGED <<engine, builders, ftr, blm, wlog>>

\* while let Some(entry) = expirations.front(): an entry that is due is
\* taken in hand, anything else ends the loop
PurgeFront ==
    /\ rds.purge.pc = "front"
    /\ IF rds.expirations # {}
          /\ ExpirationsFront(rds.expirations).at <= rds.purge.now
       THEN rds' = [rds EXCEPT !.purge.pc = "entry",
                       !.purge.cur = ExpirationsFront(rds.expirations)]
       ELSE rds' = [rds EXCEPT !.purge.pc = "sleep"]
    /\ UNCHANGED <<engine, builders, ftr, blm, wlog>>

\* the body of the loop removing the key without a look at its entry
PurgeEntryNoRecheck ==
    /\ rds.purge.pc = "entry"
    /\ rds' = [rds EXCEPT !.purge.pc = "front",
                  !.state[rds.purge.cur.key] = NoEntry,
                  !.expirations = @ \ {rds.purge.cur}]
    /\ UNCHANGED <<engine, builders, ftr, blm, wlog>>

\* the body of the loop for the entry in hand: state.get(key), and with
\* an expiry at or before now state.remove(key) under the Ref, which never
\* returns; otherwise entry.remove()
PurgeEntry ==
    /\ rds.purge.pc = "entry"
    /\ LET e == rds.state[rds.purge.cur.key]
       IN  IF e.present /\ e.expires /\ e.at <= rds.purge.now
           THEN rds' = [rds EXCEPT !.purge.pc = "deadlocked"]
           ELSE rds' = [rds EXCEPT !.purge.pc = "front",
                           !.expirations = @ \ {rds.purge.cur}]
    /\ UNCHANGED <<engine, builders, ftr, blm, wlog>>

\* sleep_duration: until the front expiration, or PurgeIdleSleep seconds
PurgeSleep ==
    /\ rds.purge.pc = "sleep"
    /\ LET at == ExpirationsFront(rds.expirations).at
           d == IF rds.expirations = {} THEN PurgeIdleSleep
                ELSE IF at > rds.purge.now THEN at - rds.purge.now ELSE 0
       IN  rds' = [rds EXCEPT !.purge.pc = "wait", !.purge.wake = rds.now + d]
    /\ UNCHANGED <<engine, builders, ftr, blm, wlog>>

\* select!: the sleep is over
PurgeWakeTimer ==
    /\ rds.purge.pc = "wait"
    /\ rds.now >= rds.purge.wake
    /\ rds' = [rds EXCEPT !.purge.pc = "top"]
    /\ UNCHANGED <<engine, builders, ftr, blm, wlog>>

\* select!: notified() takes the permit of a notify_one
PurgeWakeNotified ==
    /\ rds.purge.pc = "wait"
    /\ rds.permit
    /\ rds' = [rds EXCEPT !.purge.pc = "top", !.permit = FALSE]
    /\ UNCHANGED <<engine, builders, ftr, blm, wlog>>

RedisNext ==
    \/ RedisTick
    \/ \E c \in Clients, key \in RedisKeys, readers_wait \in BOOLEAN :
          RedisGet(c, key, readers_wait)
    \/ \E c \in Clients, key \in RedisKeys, value \in RedisValues,
          expire \in RedisExpires : RedisSet(c, key, value, expire)
    \/ \E c \in Clients : RedisSetExpire(c)
    \/ PurgeTop
    \/ PurgeFront
    \/ PurgeEntry
    \/ PurgeSleep
    \/ PurgeWakeTimer
    \/ PurgeWakeNotified

RedisSpec == RedisInit /\ [][RedisNext]_vars

\* every GET that was answered got the null bulk string if it was answered
\* at or after the expiry of the most recent SET of its key, and the value
\* of that SET otherwise
GetReplyRight ==
    (rds.pc = "run" /\ rds.last.called /\ rds.last.set.present) =>
        IF rds.last.set.expires /\ rds.last.time >= rds.last.set.at
        THEN rds.last.reply = NullBulk
        ELSE rds.last.reply = Bulk(rds.last.set.data)

\* no GET of a key that has been SET waits for a lock that is never
\* released
GetReturns ==
    rds.pc = "run" =>
        \A c \in Clients :
            ~(rds.cl[c].pc = "blocked_get" /\ rds.lastset[rds.cl[c].key].present)

\* C29: a GET of a key that was SET with EX n, issued once n seconds have
\* passed, returns the null bulk string, whether or not the purge task has
\* run for that key; a GET before the expiry, or of a key whose most recent
\* SET had no expiry, returns the value of that SET.
C29_TtlGet == GetReplyRight /\ GetReturns

(***************************************************************************)
(* The double-checked freeze                                               *)
(***************************************************************************)
\* C30: imm_memtables changes only by the rotation of the active memtable,
\* which is then above the threshold (so not empty), is not in
\* imm_memtables already and is pushed once, at index 0; a thread that
\* calls freeze for a memtable another thread has rotated pushes nothing
\* unless the new active memtable is above the threshold itself.
C30_DoubleCheckedFreeze ==
    [][imm_memtables' # imm_memtables =>
          /\ heap[memtable].approximate_size > MemtableThreshold
          /\ heap[memtable].map # {}
          /\ memtable \notin Range(imm_memtables)
          /\ imm_memtables' = <<memtable>> \o imm_memtables
          /\ memtable' # memtable
          /\ \A i, j \in 1..Len(imm_memtables') :
                imm_memtables'[i] = imm_memtables'[j] => i = j]_vars

\* a thread is about to call freeze for a memtable that it saw above the
\* threshold and that another thread has rotated already, the active
\* memtable being below the threshold
C30_Witness ==
    \E t \in Threads :
        /\ th[t].pc = "freeze"
        /\ th[t].mt # memtable
        /\ th[t].mt \in Range(imm_memtables)
        /\ heap[memtable].approximate_size <= MemtableThreshold

(***************************************************************************)
(* Immutable memtables                                                     *)
(***************************************************************************)
\* the threads that are inside MemTable::put, under the shared lock
Writing == {t \in Threads : th[t].pc \in {"put_add", "put_wal"}}

\* C31: no step changes the map, the size or the WAL of a memtable that
\* is in imm_memtables, and every put that is inside MemTable::put writes
\* the active memtable, which is not in imm_memtables.
C31_ImmNeverWritten ==
    [][/\ \A i \in Range(imm_memtables) : heap'[i] = heap[i]
       /\ \A t \in Writing :
             th[t].mt = memtable /\ th[t].mt \notin Range(imm_memtables)]_vars

\* a put is inside MemTable::put of the active memtable while a rotated
\* memtable, holding the entries of an earlier put, is in imm_memtables
C31_Witness ==
    /\ imm_memtables # <<>>
    /\ heap[imm_memtables[1]].map # {}
    /\ Writing # {}

(***************************************************************************)
(* Deadlock freedom of put and get                                         *)
(***************************************************************************)
\* the threads that are inside a call of put or get
InCall == {t \in Threads : th[t].pc \notin {"idle", "done"}}

\* C32: with fair scheduling every call of put or get that has started
\* returns, and a thread that asks for the exclusive lock in
\* force_freeze_memtable does not hold the shared lock.
C32_DeadlockFree ==
    /\ [](\A t \in Threads : th[t].pc = "freeze" => t \notin readers)
    /\ \A t \in Threads : (t \in InCall) ~> (th[t].pc = "done")

\* a put has dropped its guard and waits in force_freeze_memtable for the
\* exclusive lock while another put holds the shared lock
C32_Witness ==
    \E t \in Threads :
        /\ th[t].pc = "freeze"
        /\ t \notin readers
        /\ readers # {}

(***************************************************************************)
(* One Wal shared by the threads of concurrent puts (MemTable::put calls   *)
(* wal.put under the shared lock of the state)                             *)
(***************************************************************************)
\* the most bytes one write call on the file takes
MaxWrite == 4096

\* the keys and values the threads put
WalSharedKeys == {Rep(1, 1), Rep(2, 1)}
WalSharedValues == {Rep(9, 1), Rep(7, 8200)}

\* a thread outside Wal::put
WalIdle == [pc |-> "idle", key |-> <<>>, value |-> <<>>, rest |-> <<>>,
            out |-> <<>>]

WalSharedInit ==
    /\ StorageInit
    /\ blk = NoBuilder
    /\ tbl = NoBuilder
    /\ ftr = NoBuilder
    /\ blm = NoBuilder
    /\ wlog = [pc |-> "shared", wal |-> [buf |-> <<>>, file |-> <<>>],
               lock |-> 0, puts |-> 0,
               w |-> [t \in Threads |-> WalIdle],
               done |-> <<>>]
    /\ rds = NoBuilder

\* Wal::put up to write_all, entered without the mutex of the file
WalLockNoMutex(t, key, value) ==
    /\ wlog.pc = "shared"
    /\ wlog.w[t].pc = "idle"
    /\ wlog.puts < MaxWalPuts
    /\ wlog' = [wlog EXCEPT
          !.puts = @ + 1,
          !.w[t] = [pc |-> "write_all", key |-> key, value |-> value,
                    rest |-> WalRecord(key, value), out |-> <<>>]]
    /\ UNCHANGED <<engine, builders, ftr, blm, rds>>

\* Wal::put up to write_all: self.file.lock() and the record built in buf
WalLock(t, key, value) ==
    /\ wlog.pc = "shared"
    /\ wlog.w[t].pc = "idle"
    /\ wlog.lock = 0
    /\ wlog.puts < MaxWalPuts
    /\ wlog' = [wlog EXCEPT
          !.lock = t, !.puts = @ + 1,
          !.w[t] = [pc |-> "write_all", key |-> key, value |-> value,
                    rest |-> WalRecord(key, value), out |-> <<>>]]
    /\ UNCHANGED <<engine, builders, ftr, blm, rds>>

\* the return of Wal::put: the guard of the mutex is dropped
WalReturn(t, ok, wal, out) ==
    [wlog EXCEPT
        !.wal = wal,
        !.lock = IF @ = t THEN 0 ELSE @,
        !.w[t] = WalIdle,
        !.done = Append(@, [ok |-> ok, key |-> wlog.w[t].key,
                            value |-> wlog.w[t].value, bytes |-> out])]

\* one step of file.write_all(&buf) on the BufWriter: the copy into the
\* buffer, the flush of the buffer before a record that does not fit, or
\* one write call of a record written through.  A flush or write that
\* fails may have put a first part of its bytes into the file.
WalWrite(t, io) ==
    /\ wlog.pc = "shared"
    /\ LET me == wlog.w[t]
           w == wlog.wal
           spare == WalBufCapacity - BLen(w.buf)
           n == IF BLen(me.rest) < MaxWrite THEN BLen(me.rest) ELSE MaxWrite
           cut == WalCutAt(BTake(me.rest, n), io.cut)
       IN  \/ /\ me.pc = "write_all"
              /\ IF BLen(me.rest) < spare
                 THEN wlog' = WalReturn(t, TRUE,
                                 [w EXCEPT !.buf = BCat(w.buf, me.rest)],
                                 me.rest)
                 ELSE IF BLen(me.rest) > spare /\ w.buf # <<>>
                 THEN IF io.flush
                      THEN wlog' = [wlog EXCEPT
                               !.wal = [buf |-> <<>>,
                                        file |-> BCat(w.file, w.buf)],
                               !.w[t].pc = "flushed"]
                      ELSE wlog' = WalReturn(t, FALSE,
                               [buf |-> BDrop(w.buf, WalCutAt(w.buf, io.cut)),
                                file |-> BCat(w.file,
                                   BTake(w.buf, WalCutAt(w.buf, io.cut)))],
                               <<>>)
                 ELSE wlog' = [wlog EXCEPT !.w[t].pc = "flushed"]
           \/ /\ me.pc = "flushed"
              /\ IF BLen(me.rest) + BLen(me.out) >= WalBufCapacity
                 THEN IF ~io.write
                      THEN wlog' = WalReturn(t, FALSE,
                               [w EXCEPT !.file =
                                   BCat(w.file, BTake(me.rest, cut))],
                               BCat(me.out, BTake(me.rest, cut)))
                      ELSE IF n = BLen(me.rest)
                      THEN wlog' = WalReturn(t, TRUE,
                               [w EXCEPT !.file = BCat(w.file, me.rest)],
                               BCat(me.out, me.rest))
                      ELSE wlog' = [wlog EXCEPT
                               !.wal.file = BCat(w.file, BTake(me.rest, n)),
                               !.w[t].rest = BDrop(me.rest, n),
                               !.w[t].out = BCat(me.out, BTake(me.rest, n))]
                 ELSE wlog' = WalReturn(t, TRUE,
                                 [w EXCEPT !.buf = BCat(w.buf, me.rest)],
                                 me.rest)
    /\ UNCHANGED <<engine, builders, ftr, blm, rds>>

WalSharedNext ==
    \E t \in Threads :
        \/ \E key \in WalSharedKeys, value \in WalSharedValues :
              WalLock(t, key, value)
        \/ \E io \in WalIo : WalWrite(t, io)

WalSharedSpec == WalSharedInit /\ [][WalSharedNext]_vars

\* the bytes of the puts that have returned, in the order of their return
RECURSIVE DoneBytes(_)
DoneBytes(done) ==
    IF done = <<>> THEN <<>>
    ELSE BCat(DoneBytes(SubSeq(done, 1, Len(done) - 1)),
              done[Len(done)].bytes)

\* C33: when no put is inside Wal::put the log is the bytes of the puts
\* that have returned, each put's bytes in one piece and the pieces in the
\* order of the returns; the piece of a put that returned Ok is exactly
\* its one record, so the log holds one record for each such put.
C33_WalRecordsContiguous ==
    (wlog.pc = "shared" /\ \A t \in Threads : wlog.w[t].pc = "idle") =>
        /\ WalStream(wlog.wal) = DoneBytes(wlog.done)
        /\ \A i \in 1..Len(wlog.done) :
              wlog.done[i].ok =>
                  wlog.done[i].bytes
                     = WalRecord(wlog.done[i].key, wlog.done[i].value)

\* three puts have returned Ok, one of them written through in several
\* write calls after a flush of the buffer that held an earlier record
C33_Witness ==
    /\ wlog.pc = "shared"
    /\ \A t \in Threads : wlog.w[t].pc = "idle"
    /\ Len(wlog.done) = 3
    /\ \A i \in 1..3 : wlog.done[i].ok
    /\ wlog.done[1].value = Rep(9, 1)
    /\ wlog.done[2].value = Rep(7, 8200)
    /\ wlog.wal.buf # <<>>

(***************************************************************************)
(* The WAL against the map                                                 *)
(***************************************************************************)
\* the records handed to the WAL of a memtable, oldest first
WalRecords(m) == m.wal.file \o m.wal.buf

\* the value of the last record of key k in the records recs
RECURSIVE LastLogged(_, _)
LastLogged(recs, k) ==
    IF recs = <<>> THEN None
    ELSE IF recs[Len(recs)].key = k THEN Some(recs[Len(recs)].value)
    ELSE LastLogged(SubSeq(recs, 1, Len(recs) - 1), k)

\* C34: when every put made so far has returned Ok and none is running,
\* each memtable holds for every key the value of the last WAL record of
\* that key (and no entry for a key without a record).
C34_WalMapAgree ==
    (InCall = {} /\ \A i \in 1..Len(hist) : hist[i].status = "ok") =>
        \A i \in 1..Len(heap), k \in Keys :
            MemTableGet(heap[i], k) = LastLogged(WalRecords(heap[i]), k)

(***************************************************************************)
(* A freeze that fails                                                     *)
(***************************************************************************)
\* thread t returns from its put in this step with the error of
\* MemTable::create_with_wal
FreezeFails(t) == th[t].pc = "freeze" /\ th'[t].ret = CreateErr

\* C35: the step in which force_freeze_memtable fails to create the new
\* WAL leaves the active memtable, imm_memtables and every memtable as
\* they were and makes the put that called it return the error; and
\* every put that finds the active memtable above the threshold calls the
\* freeze, which then rotates or fails again, so the freeze is retried.
C35_FailedFreeze ==
    [][\A t \in Threads :
          /\ FreezeFails(t) =>
                /\ memtable' = memtable
                /\ imm_memtables' = imm_memtables
                /\ heap' = heap
                /\ th'[t].pc = "done" /\ th'[t].op = "put"
                /\ hist'[th[t].put_id].status = "err"
          /\ (th[t].pc = "put_size" /\ th'[t].pc # "put_size"
              /\ heap[memtable].approximate_size > MemtableThreshold
              /\ th[t].mt = memtable) => th'[t].pc = "freeze"
          /\ (th[t].pc = "freeze" /\ th'[t].pc # "freeze"
              /\ heap[memtable].approximate_size > MemtableThreshold) =>
                \/ th'[t].ret = CreateErr
                \/ imm_memtables' = ImmInsert(imm_memtables, memtable)]_vars

\* a put returned the error of a failed freeze, its record logged, and a
\* later put has rotated the memtable that was left above the threshold
C35_Witness ==
    \E i \in 1..Len(hist) :
        /\ hist[i].status = "err" /\ hist[i].logged
        /\ hist[i].mt \in Range(imm_memtables)

(***************************************************************************)
(* Index overflow                                                          *)
(***************************************************************************)
\* the bytes of the index entries of metas: key_len, first_key, val_len and
\* the 4 bytes of the offset for each
RECURSIVE IndexEntriesSize(_)
IndexEntriesSize(metas) ==
    IF metas = <<>> THEN 0
    ELSE 2 + BLen(Head(metas).first_key) + 2 + 4
           + IndexEntriesSize(Tail(metas))

\* the index of the builder, encoded as one block (entries, one offset for
\* each, the number of entries), is within block_size
IndexFits ==
    IndexEntriesSize(tbl.builder.block_meta)
        + 2 * Len(tbl.builder.block_meta) + 2 <= tbl.builder.block_size

\* build returned a Format error
BuildFormatErr ==
    tbl.ret \in {FormatErr("index block too large"),
                 FormatErr("missing block first key"),
                 FormatErr("entry too large for block")}

\* C36: build returns a Format error exactly when the index entries, one
\* for each data block, do not fit in one block of block_size, and then
\* no file has been created.
C36_IndexOverflow ==
    tbl.pc = "built" =>
        /\ BuildFormatErr <=> ~IndexFits
        /\ BuildFormatErr => tbl.file = NoFile

\* C36 as the code has it: build returns a Format error exactly when the
\* index has two entries or more and does not fit in one block of
\* block_size (an index of one entry is taken whatever its size, as the
\* first entry of every block is), and then no file has been created.
C36_IndexOverflowMany ==
    tbl.pc = "built" =>
        /\ BuildFormatErr <=>
              (Len(tbl.builder.block_meta) >= 2 /\ ~IndexFits)
        /\ BuildFormatErr => tbl.file = NoFile

\* a build of two data blocks or more has failed on its index and has
\* created no file
C36_Witness ==
    /\ tbl.pc = "built"
    /\ tbl.ret = FormatErr("index block too large")
    /\ Len(tbl.builder.block_meta) >= 2
    /\ tbl.file = NoFile

(***************************************************************************)
(* The length fields of a WAL record                                       *)
(***************************************************************************)
\* C37: when a put has returned Ok, the record it appended to the WAL
\* carries in key_len the number of bytes of the key and in val_len the
\* number of bytes of the value; a key or value of more than 65535 bytes
\* has been refused or its length is not written modulo 2^16.
C37_LengthFieldsExact ==
    (wlog.pc = "open" /\ wlog.puts > 0 /\ wlog.last.ok) =>
        /\ GetU16Le(WalAppended, 0) = BLen(wlog.last.key)
        /\ GetU16Le(WalAppended, 2 + BLen(wlog.last.key))
              = BLen(wlog.last.value)

(***************************************************************************)
(* Puts of any key, the empty key too                                      *)
(***************************************************************************)
\* LsmStorage::put takes any &[u8] as its key
AnyKeyNext ==
    \/ Next
    \/ \E t \in Threads, v \in Values : PutInsert(t, <<>>, v)

AnyKeySpec == Init /\ [][AnyKeyNext]_vars

\* C38: no memtable of the engine holds an entry with the empty key, and
\* no WAL holds a record with the empty key.
C38_NoEmptyKey ==
    \A i \in 1..Len(heap) :
        /\ \A e \in heap[i].map : e.key # <<>>
        /\ \A j \in 1..Len(WalRecords(heap[i])) :
              WalRecords(heap[i])[j].key # <<>>

(***************************************************************************)
(* The purge task of mini-redis                                            *)
(***************************************************************************)
\* C39: a step takes a key out of the state map only when the entry the
\* key has at that moment carries an expiry at or before now; so a key
\* that was SET again without expiry, or with a later one, stays when its
\* earlier expiration comes to the front.
C39_PurgeSafety ==
    [][\A k \in RedisKeys :
          (rds.state[k].present /\ ~rds'.state[k].present) =>
              (rds.state[k].expires /\ rds.state[k].at <= rds.now)]_vars

\* the purge task has dropped an expiration that was due while the key's
\* entry, SET again since, has no expiry or a later one, and the entry is
\* still there
C39_Witness ==
    /\ rds.pc = "run"
    /\ rds.purge.pc = "front"
    /\ rds.purge.cur # NoNode
    /\ rds.purge.cur \notin rds.expirations
    /\ rds.purge.cur.at <= rds.purge.now
    /\ rds.state[rds.purge.cur.key].present
    /\ \/ ~rds.state[rds.purge.cur.key].expires
       \/ rds.state[rds.purge.cur.key].at > rds.purge.now

\* the runtime keeps polling the purge task and the connection handlers,
\* and time goes on
RedisFairSpec ==
    /\ RedisSpec
    /\ WF_vars(RedisTick)
    /\ WF_vars(\E c \in Clients : RedisSetExpire(c))
    /\ WF_vars(PurgeTop \/ PurgeFront \/ PurgeEntry \/ PurgeSleep
                 \/ PurgeWakeTimer \/ PurgeWakeNotified)

\* the entry of key k carries an expiry that has passed
Expired(k) ==
    rds.state[k].present /\ rds.state[k].expires
        /\ rds.state[k].at <= rds.now

\* C40: the purge task is never blocked for ever, and an entry whose
\* expiry has passed is eventually out of the state map unless the key is
\* SET again.
C40_PurgeLiveness ==
    /\ [](rds.pc = "run" => ~PurgeDeadlocked)
    /\ \A k \in RedisKeys : Expired(k) ~> ~Expired(k)
====
